---- MODULE Spec2Model ----
(***************************************************************************)
(* A model of the two-tier cache of src/src/modules/CacheManager.js: the   *)
(* in-memory Map, the IndexedDB object stores, the statistics and their    *)
(* localStorage copy, the two interval timers and the fallback codec.      *)
(*                                                                         *)
(* Time is a logical clock (Date.now()), values are JSON texts written as  *)
(* sequences of one-character strings, and a missing lastAccessed is 0     *)
(* (the code reads it through `a.lastAccessed || a.timestamp`).            *)
(***************************************************************************)
EXTENDS Integers, Sequences, FiniteSets, TLC

\* ---------------------------------------------------------------- bounds
\* Keys the caller uses in Spec and SpecFail.
NumKeys == 2
\* Keys the caller uses in SpecBound.
NumBoundKeys == 4
\* Largest in-memory tier SpecEvict draws from every mix of entry shapes.
EvictMaxN == 5
\* Largest in-memory tier SpecEvict draws, past EvictMaxN from two shapes.
EvictBigN == 9
\* Last value of the clock.
MaxTime == 3
\* Facade calls in one behaviour.
MaxOps == 3
\* Facade calls in one behaviour of SpecBound.
MaxBoundOps == 5
\* Callers with a getOrCompute call in flight at once in SpecRace.
NumCallers == 2
\* Facade calls in one behaviour of SpecTag.
MaxTagOps == 4
\* Longest JSON text given to the codec.
MaxCodecLen == 4
\* Calls of the caller whose removals are counted against stats.evictions.
MaxStatOps == 2
\* Largest count of hits and of misses an instance starts with.
MaxCount == 4
\* Longest list given to setBatch and getBatch.
MaxBatch == 2
\* Largest denominator of stats.compressionRatio the model follows.
MaxRatioDen == 2
\* cacheConfig.maxMemoryItems, scaled down from the program's 100.
maxMemoryItems == 2
\* cacheConfig.maxMemorySize, scaled down from the program's 50 MiB; the unit
\* is one character of JSON text.
maxMemorySize == 3

\* ------------------------------------------------------ program constants
\* cacheConfig.ttl, 24 hours in milliseconds.
DefaultTtl == 86400000
\* Bytes a gzip stream adds to a short payload (header, trailer, block).
GzipOverhead == 20
\* 7 * 24 * 60 * 60 * 1000, the ttl of cacheFile.
FileTtl == 604800000

Keys == 1..NumKeys
BoundKeys == 1..NumBoundKeys

\* JSON texts of the values the caller stores: the numbers 7 and 42.
V7 == <<"7">>
V42 == <<"4", "2">>
NoValue == <<>>

Digits == {"0", "1", "2", "3", "4", "5", "6", "7", "8", "9"}

Max(a, b) == IF a >= b THEN a ELSE b

VARIABLES
    window,        \* [indexedDB, CompressionStream]: what the runtime offers
    indexedDB,     \* this.indexedDB: "null", "open" or "closed"
    timers,        \* [memoryMonitor, cleanupInterval]: the intervals that run
    now,           \* Date.now()
    memoryCache,   \* this.memoryCache: the entries in insertion order
    dataCache,     \* object store dataCache: key -> record
    queryCache,    \* object store queryCache: key -> record
    fileCache,     \* object store fileCache: key -> record
    stats,         \* this.stats
    localStorage,  \* item cache_stats: [present, stats]
    ops,           \* facade calls made so far
    last,          \* the last facade call or timer callback and its outcome
    written,       \* per key, what the last set of it stored (history)
    evictRun,      \* the last run of evictItems (history)
    calls,         \* per caller, the getOrCompute call it has in flight
    batch,         \* the setBatch or getBatch call in flight
    life,          \* [init, destroyed]: where init() stands, destroy() calls made
    twin,          \* a second instance, in a runtime without indexedDB
    codec,         \* a value on its way through compress and decompress
    queried,       \* per query hash, what the last cacheQuery of it was given (history)
    warm,          \* the last warmCache call: its files and how far it got (history)
    setCall,       \* a set call followed statement by statement
    reads,         \* per key, the gets that returned a value since its last set (history)
    getCall,       \* a get call suspended on its durable read
    processor      \* DataProcessor: [cache, store], its Map and its dataCache store

vars == <<window, indexedDB, timers, now, memoryCache, dataCache, queryCache,
          fileCache, stats, localStorage, ops, last, written, evictRun,
          calls, batch, life, twin, codec, queried, warm, setCall, reads, getCall, processor>>

\* ------------------------------------------------------------ rationals
RECURSIVE Gcd(_, _)
Gcd(a, b) == IF b = 0 THEN a ELSE Gcd(b, a % b)

Abs(x) == IF x < 0 THEN 0 - x ELSE x

\* n/d in lowest terms, d > 0.
Ratio(n, d) ==
    LET g == Gcd(Abs(n), d)
    IN  IF n = 0 THEN [n |-> 0, d |-> 1] ELSE [n |-> n \div g, d |-> d \div g]

ZeroRatio == [n |-> 0, d |-> 1]

\* updateCompressionRatio: (old + (original - compressed) / original) / 2.
updateCompressionRatio(old, originalSize, compressedSize) ==
    Ratio(old.n * originalSize + (originalSize - compressedSize) * old.d,
          2 * old.d * originalSize)

\* ------------------------------------------------------------------ codec
RECURSIVE Decimal(_)
Decimal(n) ==
    LET d == CHOOSE c \in Digits :
                 c = <<"0", "1", "2", "3", "4", "5", "6", "7", "8", "9">>[(n % 10) + 1]
    IN  IF n < 10 THEN <<d>> ELSE Decimal(n \div 10) \o <<d>>

DigitValue(c) ==
    CHOOSE v \in 0..9 : <<"0", "1", "2", "3", "4", "5", "6", "7", "8", "9">>[v + 1] = c

RECURSIVE ParseInt(_, _)
ParseInt(s, acc) ==
    IF s = <<>> THEN acc ELSE ParseInt(Tail(s), 10 * acc + DigitValue(Head(s)))

\* String.prototype.repeat
Repeat(c, n) == IF n <= 0 THEN <<>> ELSE [i \in 1..n |-> c]

\* Length of the longest prefix of s made of characters satisfying in set S.
RECURSIVE PrefixIn(_, _)
PrefixIn(s, S) ==
    IF s = <<>> \/ Head(s) \notin S THEN 0 ELSE 1 + PrefixIn(Tail(s), S)

Drop(s, n) == SubSeq(s, n + 1, Len(s))

\* str.replace(/(.)\1+/g, (match, char) => char + match.length)
RECURSIVE simpleCompress(_)
simpleCompress(str) ==
    IF str = <<>> THEN <<>>
    ELSE LET c == Head(str)
             run == PrefixIn(str, {c})
         IN  IF run >= 2
             THEN <<c>> \o Decimal(run) \o simpleCompress(Drop(str, run))
             ELSE <<c>> \o simpleCompress(Tail(str))

\* str.replace(/(.)\d+/g, (match, char) => char.repeat(parseInt(match.slice(1))))
RECURSIVE simpleDecompress(_)
simpleDecompress(str) ==
    IF str = <<>> THEN <<>>
    ELSE LET c == Head(str)
             nd == PrefixIn(Tail(str), Digits)
         IN  IF nd >= 1
             THEN Repeat(c, ParseInt(SubSeq(str, 2, nd + 1), 0))
                  \o simpleDecompress(Drop(str, nd + 1))
             ELSE <<c>> \o simpleDecompress(Tail(str))

\* The JSON texts JSON.parse accepts, over the characters of the values
\* modelled: numbers, strings, arrays of one element or none, {}.
IsJSONNumber(s) ==
    /\ s # <<>>
    /\ \A i \in 1..Len(s) : s[i] \in Digits
    /\ (Len(s) > 1 => s[1] # "0")

IsJSONString(s) ==
    /\ Len(s) >= 2
    /\ s[1] = "\"" /\ s[Len(s)] = "\""
    /\ \A i \in 2..(Len(s) - 1) : s[i] # "\""

RECURSIVE IsJSON(_)
IsJSON(s) ==
    \/ IsJSONNumber(s)
    \/ IsJSONString(s)
    \/ s = <<"{", "}">>
    \/ /\ Len(s) >= 2
       /\ s[1] = "[" /\ s[Len(s)] = "]"
       /\ Len(s) = 2 \/ IsJSON(SubSeq(s, 2, Len(s) - 1))

Returned(v) == [kind |-> "value", v |-> v]
ReturnedNull == [kind |-> "null", v |-> NoValue]
Raised == [kind |-> "throw", v |-> NoValue]
ReturnedTrue == [kind |-> "true", v |-> NoValue]
NoReturn == [kind |-> "none", v |-> NoValue]

JSONparse(s) == IF IsJSON(s) THEN Returned(s) ELSE Raised

\* compress(data): the stored payload and the two sizes given to
\* updateCompressionRatio. Without CompressionStream the payload is the
\* run-length string; with it, the gzip bytes of the JSON text.
compress(win, data) ==
    IF ~win.CompressionStream
    THEN LET compressed == simpleCompress(data)
         IN  [payload |-> [form |-> "rle", data |-> compressed],
              originalSize |-> Len(data), compressedSize |-> Len(compressed)]
    ELSE [payload |-> [form |-> "gzip", data |-> data],
          originalSize |-> Len(data), compressedSize |-> Len(data) + GzipOverhead]

\* decompress(compressedData): a string goes through simpleDecompress and
\* JSON.parse, be it the run-length string or a string value that compress
\* handed back raw; bytes go through DecompressionStream and JSON.parse;
\* anything else comes back as it is.
decompress(win, payload) ==
    IF payload.form = "rle" THEN JSONparse(simpleDecompress(payload.data))
    ELSE IF payload.form = "raw" /\ IsJSONString(payload.data)
    THEN JSONparse(simpleDecompress(SubSeq(payload.data, 2, Len(payload.data) - 1)))
    ELSE IF payload.form = "gzip" /\ win.CompressionStream THEN JSONparse(payload.data)
    ELSE IF payload.form = "gzip" THEN [kind |-> "bytes", v |-> payload.data]
    ELSE Returned(payload.data)

\* calculateSize: the byte length of JSON.stringify(data).
calculateSize(data) == Len(data)

\* ------------------------------------------------- the in-memory Map
Has(mem, key) == \E i \in 1..Len(mem) : mem[i].key = key

IndexOf(mem, key) == CHOOSE i \in 1..Len(mem) : mem[i].key = key

MapGet(mem, key) == mem[IndexOf(mem, key)]

\* Map.prototype.set that keeps the entry of an existing key.
MapSet_keepFirst(mem, key, item) ==
    IF Has(mem, key) THEN mem ELSE Append(mem, item)

\* Map.prototype.set: an existing key keeps its place, a new one goes last.
MapSet(mem, key, item) ==
    IF Has(mem, key) THEN [mem EXCEPT ![IndexOf(mem, key)] = item]
    ELSE Append(mem, item)

MapDelete(mem, key) == SelectSeq(mem, LAMBDA e : e.key # key)

\* ------------------------------------------------- the object stores
EmptyStore == [k \in {} |-> 0]

\* store.add(data) in place of put: a record already there stays.
setInIndexedDB_keepFirst(store, data) ==
    [k \in DOMAIN store \cup {data.key} |-> IF k \in DOMAIN store THEN store[k] ELSE data]

\* store.put(data): upsert by data.key.
setInIndexedDB(store, data) ==
    [k \in DOMAIN store \cup {data.key} |-> IF k = data.key THEN data ELSE store[k]]

\* deleteFromIndexedDB that leaves the store as it is.
deleteFromIndexedDB_skipped(store, key) == store

\* store.delete(key)
deleteFromIndexedDB(store, key) ==
    [k \in DOMAIN store \ {key} |-> store[k]]

\* ------------------------------------------------------- statistics
ZeroStats == [hits |-> 0, misses |-> 0, evictions |-> 0, compressionRatio |-> ZeroRatio]

\* saveStatsToStorage that writes the statistics of before the reset.
saveStatsToStorage_stale(st) == [present |-> TRUE, stats |-> stats]

\* saveStatsToStorage: localStorage.setItem('cache_stats', JSON.stringify(stats))
saveStatsToStorage(st) == [present |-> TRUE, stats |-> st]

recordHit(st) == [st EXCEPT !.hits = @ + 1]

recordMiss(st) == [st EXCEPT !.misses = @ + 1]

\* Math.round(n / d) for n >= 0 and d > 0, truncated instead.
MathRound_truncate(n, d) == n \div d

\* Math.round(n / d) for n >= 0 and d > 0: the nearest integer, halves up.
\* The rate it is applied to, hits * 10000 / total, lies half-way between two
\* integers only for totals that are multiples of 32, which is where the
\* double of the code can fall to either side.
MathRound(n, d) == (2 * n + d) \div (2 * d)

\* ------------------------------------------------- expiry and eviction
\* isExpired that takes an entry whose age is exactly its ttl for expired.
isExpired_atTtl(item, t) == item.ttl > 0 /\ (t - item.timestamp) >= item.ttl

\* item.ttl > 0 && (Date.now() - item.timestamp) > item.ttl
isExpired(item, t) == item.ttl > 0 /\ (t - item.timestamp) > item.ttl

\* a.lastAccessed || a.timestamp
Recency(a) == IF a.lastAccessed # 0 THEN a.lastAccessed ELSE a.timestamp

\* evictCompare without the priority test.
evictCompare_recencyOnly(a, b) == Recency(a) - Recency(b)

\* The comparator of evictItems' sort: negative when a sorts before b.
evictCompare(a, b) ==
    IF a.priority # b.priority THEN a.priority - b.priority
    ELSE Recency(a) - Recency(b)

\* Array.prototype.sort is stable: x goes after every element it does not
\* sort strictly before.
RECURSIVE InsertSorted(_, _)
InsertSorted(x, s) ==
    IF s = <<>> THEN <<x>>
    ELSE IF evictCompare(x, Head(s)) < 0 THEN <<x>> \o s
    ELSE <<Head(s)>> \o InsertSorted(x, Tail(s))

RECURSIVE SortForEviction(_)
SortForEviction(items) ==
    IF items = <<>> THEN <<>>
    ELSE InsertSorted(items[Len(items)], SortForEviction(SubSeq(items, 1, Len(items) - 1)))

\* evictCount without the minimum of 1.
evictCount_noMinimum(n) == n \div 4

\* Math.max(1, Math.floor(items.length * 0.25))
evictCount(n) == Max(1, n \div 4)

NoEvictRun == [ran |-> FALSE, before |-> <<>>, after |-> <<>>]

\* evictItems counting one eviction a run, whatever it removed.
evictItems_countRuns(mem, st) ==
    LET items == SortForEviction(mem)
        cnt == evictCount(Len(items))
        gone == {items[i].key : i \in 1..cnt}
        kept == SelectSeq(mem, LAMBDA e : e.key \notin gone)
    IN  [mem |-> kept,
         stats |-> [st EXCEPT !.evictions = @ + 1],
         run |-> [ran |-> TRUE, before |-> mem, after |-> kept]]

\* evictItems: delete the first evictCount entries of the sorted list and
\* count each in stats.evictions.
evictItems(mem, st) ==
    LET items == SortForEviction(mem)
        cnt == evictCount(Len(items))
        gone == {items[i].key : i \in 1..cnt}
        kept == SelectSeq(mem, LAMBDA e : e.key \notin gone)
    IN  [mem |-> kept,
         stats |-> [st EXCEPT !.evictions = @ + cnt],
         run |-> [ran |-> TRUE, before |-> mem, after |-> kept]]

RECURSIVE SumSizes(_)
SumSizes(mem) == IF mem = <<>> THEN 0 ELSE Head(mem).size + SumSizes(Tail(mem))

\* checkEviction: evict when the item count is over the limit.
checkEviction(mem, st, run) ==
    IF Len(mem) > maxMemoryItems THEN evictItems(mem, st)
    ELSE [mem |-> mem, stats |-> st, run |-> run]

\* getStats(): the statistics, the hit rate in percent rounded to two
\* decimals (Math.round(hitRate * 100) / 100), the entries in memory and the
\* sum of their sizes.
getStats(st, mem) ==
    LET total == st.hits + st.misses
    IN  [hits |-> st.hits, misses |-> st.misses, evictions |-> st.evictions,
         compressionRatio |-> st.compressionRatio,
         hitRate |-> IF total > 0 THEN Ratio(MathRound(st.hits * 100 * 100, total), 100)
                     ELSE ZeroRatio,
         memoryItems |-> Len(mem),
         memorySize |-> SumSizes(mem)]

\* ------------------------------------------------------ the facade
\* The options of a set call after destructuring: set(key, value) alone,
\* and the calls the scenarios make.
DefaultOptions == [ttl |-> DefaultTtl, compress |-> TRUE, priority |-> 1, tags |-> {}]
ShortLived == [ttl |-> 1, compress |-> FALSE, priority |-> 1, tags |-> {}]
Unimportant == [ttl |-> 0, compress |-> FALSE, priority |-> 0, tags |-> {}]
\* The set calls of the caller in Spec: set(key, 42) and a short-lived 7.
SetCalls == {[value |-> V42, options |-> DefaultOptions],
             [value |-> V7, options |-> ShortLived]}
BoundOptions == {Unimportant, [Unimportant EXCEPT !.priority = 1]}

NotWritten == [value |-> NoValue, timestamp |-> 0, ttl |-> 0]

\* The cacheItem set builds.
cacheItem(win, key, value, o, t) ==
    [key |-> key,
     value |-> IF o.compress THEN compress(win, value).payload
               ELSE [form |-> "raw", data |-> value],
     timestamp |-> t, ttl |-> o.ttl, priority |-> o.priority, tags |-> o.tags,
     size |-> calculateSize(value), accessCount |-> 0, compressed |-> o.compress,
     lastAccessed |-> 0]

\* this.stats after the compress call of set.
statsAfterCompress(win, value, o, st) ==
    IF o.compress
    THEN LET c == compress(win, value)
         IN  [st EXCEPT !.compressionRatio =
                  updateCompressionRatio(@, c.originalSize, c.compressedSize)]
    ELSE st

\* What `last` keeps of a call: its outcome, the statistics before it, whether
\* the key was in each tier before it, the durable request that failed in it,
\* whether it reached checkEviction and the tag given to invalidateByTag.
Called(op, key, ret, inMem, inDb) ==
    [op |-> op, key |-> key, ret |-> ret, pre |-> stats, inMem |-> inMem, inDb |-> inDb,
     fault |-> "none", checked |-> FALSE, tag |-> ""]

\* set(key, value, options): memory write, durable write, eviction check.
Set(key, value, o) ==
    LET item == cacheItem(window, key, value, o, now)
        st == statsAfterCompress(window, value, o, stats)
        ev == checkEviction(MapSet(memoryCache, key, item), st, evictRun)
    IN  /\ st.compressionRatio.d <= MaxRatioDen
        /\ memoryCache' = ev.mem
        /\ dataCache' = IF indexedDB = "open" THEN setInIndexedDB(dataCache, item)
                        ELSE dataCache
        /\ stats' = ev.stats
        /\ evictRun' = ev.run
        /\ written' = [written EXCEPT ![key] =
                           [value |-> value, timestamp |-> now, ttl |-> o.ttl]]
        /\ ops' = ops + 1
        /\ last' = [Called("set", key, ReturnedTrue, Has(memoryCache, key),
                            key \in DOMAIN dataCache) EXCEPT !.checked = TRUE]
        /\ UNCHANGED <<window, indexedDB, timers, now, queryCache, fileCache, localStorage>>

\* What get finds: the memory entry, else the durable record, else nothing.
Found(key) ==
    IF Has(memoryCache, key) THEN <<MapGet(memoryCache, key)>>
    ELSE IF indexedDB = "open" /\ key \in DOMAIN dataCache THEN <<dataCache[key]>>
    ELSE <<>>

\* get(key), the branch that finds nothing: one miss, null.
GetMiss(key) ==
    /\ Found(key) = <<>>
    /\ stats' = recordMiss(stats)
    /\ localStorage' = saveStatsToStorage(stats')
    /\ ops' = ops + 1
    /\ last' = Called("get", key, ReturnedNull, FALSE, key \in DOMAIN dataCache)
    /\ UNCHANGED <<window, indexedDB, timers, now, memoryCache, dataCache, queryCache,
                   fileCache, written, evictRun>>

\* get(key), the branch that finds an expired entry: the hit of the lookup
\* is already recorded, then delete(key), a miss, null.
GetExpired(key) ==
    /\ Found(key) # <<>>
    /\ isExpired(Found(key)[1], now)
    /\ memoryCache' = MapDelete(memoryCache, key)
    /\ dataCache' = IF indexedDB = "open" THEN deleteFromIndexedDB(dataCache, key)
                    ELSE dataCache
    /\ stats' = recordMiss(recordHit(stats))
    /\ localStorage' = saveStatsToStorage(stats')
    /\ ops' = ops + 1
    /\ last' = Called("get", key, ReturnedNull, Has(memoryCache, key), key \in DOMAIN dataCache)
    /\ UNCHANGED <<window, indexedDB, timers, now, queryCache, fileCache, written, evictRun>>

\* get(key), the branch that finds a live entry: a hit, promotion of a
\* durable record, the access statistics of the entry, the decoded value.
GetHit(key) ==
    /\ Found(key) # <<>>
    /\ ~isExpired(Found(key)[1], now)
    /\ LET item == Found(key)[1]
           touched == [item EXCEPT !.accessCount = @ + 1, !.lastAccessed = now]
           value == IF item.compressed THEN decompress(window, item.value)
                    ELSE Returned(item.value.data)
       IN  /\ memoryCache' = MapSet(memoryCache, key, touched)
           /\ last' = Called("get", key, value, Has(memoryCache, key), key \in DOMAIN dataCache)
    /\ stats' = recordHit(stats)
    /\ localStorage' = saveStatsToStorage(stats')
    /\ ops' = ops + 1
    /\ UNCHANGED <<window, indexedDB, timers, now, dataCache, queryCache, fileCache,
                   written, evictRun>>

Get(key) == GetMiss(key) \/ GetExpired(key) \/ GetHit(key)

\* delete(key): both tiers, true.
Delete(key) ==
    /\ memoryCache' = MapDelete(memoryCache, key)
    /\ dataCache' = IF indexedDB = "open" THEN deleteFromIndexedDB(dataCache, key)
                    ELSE dataCache
    /\ written' = [written EXCEPT ![key] = NotWritten]
    /\ ops' = ops + 1
    /\ last' = Called("delete", key, ReturnedTrue, Has(memoryCache, key), key \in DOMAIN dataCache)
    /\ UNCHANGED <<window, indexedDB, timers, now, queryCache, fileCache, stats,
                   localStorage, evictRun>>

\* clear(): memory, the dataCache store, the statistics and their saved copy.
Clear ==
    /\ memoryCache' = <<>>
    /\ dataCache' = IF indexedDB = "open" THEN EmptyStore ELSE dataCache
    /\ stats' = ZeroStats
    /\ localStorage' = saveStatsToStorage(stats')
    /\ written' = [k \in DOMAIN written |-> NotWritten]
    /\ ops' = ops + 1
    /\ last' = Called("clear", 0, NoReturn, memoryCache # <<>>, DOMAIN dataCache # {})
    /\ UNCHANGED <<window, indexedDB, timers, now, queryCache, fileCache, evictRun>>

\* cacheQuery(queryHash, result): a record in the queryCache store only.
CacheQuery(hash, result) ==
    /\ queryCache' =
           IF indexedDB = "open"
           THEN setInIndexedDB(queryCache,
                    [key |-> hash, value |-> result, queryType |-> "general",
                     timestamp |-> now, lastAccessed |-> now])
           ELSE queryCache
    /\ ops' = ops + 1
    /\ last' = Called("cacheQuery", hash, NoReturn, FALSE, hash \in DOMAIN queryCache)
    /\ UNCHANGED <<window, indexedDB, timers, now, memoryCache, dataCache, fileCache,
                   stats, localStorage, written, evictRun>>

\* set(key, value, options) when store.put fails: setInIndexedDB rejects, set
\* has no handler, so the call ends there with the memory write done.
SetPutFails(key, value, o) ==
    LET item == cacheItem(window, key, value, o, now)
        st == statsAfterCompress(window, value, o, stats)
    IN  /\ indexedDB = "open"
        /\ st.compressionRatio.d <= MaxRatioDen
        /\ memoryCache' = MapSet(memoryCache, key, item)
        /\ stats' = st
        /\ written' = [written EXCEPT ![key] = NotWritten]
        /\ ops' = ops + 1
        /\ last' = [Called("set", key, Raised, Has(memoryCache, key),
                            key \in DOMAIN dataCache) EXCEPT !.fault = "put"]
        /\ UNCHANGED <<window, indexedDB, timers, now, dataCache, queryCache, fileCache,
                       localStorage, evictRun>>

\* get(key) when store.get fails: getFromIndexedDB rejects, get has no
\* handler, so the call ends there.
GetReadFails(key) ==
    /\ ~Has(memoryCache, key)
    /\ indexedDB = "open"
    /\ ops' = ops + 1
    /\ last' = [Called("get", key, Raised, FALSE, key \in DOMAIN dataCache)
                    EXCEPT !.fault = "get"]
    /\ UNCHANGED <<window, indexedDB, timers, now, memoryCache, dataCache, queryCache,
                   fileCache, stats, localStorage, written, evictRun>>

\* ------------------------------------------------------ codec failures
\* JSON texts of two more values: the number 20 and the string "a".
V20 == <<"2", "0">>
VStringA == <<"\"", "a", "\"">>

\* set(key, value, options) of a value JSON.stringify throws on (a cycle, a
\* BigInt): without CompressionStream compress throws at line 239; otherwise
\* calculateSize throws at line 106, in its catch block. set rejects before
\* the entry exists.
SetSerializeFails(key, o) ==
    /\ ops' = ops + 1
    /\ last' = [Called("set", key, Raised, Has(memoryCache, key), key \in DOMAIN dataCache)
                    EXCEPT !.fault = "serialize"]
    /\ UNCHANGED <<window, indexedDB, timers, now, memoryCache, dataCache, queryCache,
                   fileCache, stats, localStorage, written, evictRun>>

\* set(key, value, options) when the gzip stream throws: compress catches,
\* returns the value as it is, and set stores it with compressed: compress.
SetCompressFails(key, value, o) ==
    LET item == [cacheItem(window, key, value, o, now) EXCEPT
                     !.value = [form |-> "raw", data |-> value]]
        ev == checkEviction(MapSet(memoryCache, key, item), stats, evictRun)
    IN  /\ window.CompressionStream
        /\ o.compress
        /\ memoryCache' = ev.mem
        /\ dataCache' = IF indexedDB = "open" THEN setInIndexedDB(dataCache, item)
                        ELSE dataCache
        /\ stats' = ev.stats
        /\ evictRun' = ev.run
        /\ written' = [written EXCEPT ![key] =
                           [value |-> value, timestamp |-> now, ttl |-> o.ttl]]
        /\ ops' = ops + 1
        /\ last' = [Called("set", key, ReturnedTrue, Has(memoryCache, key),
                            key \in DOMAIN dataCache)
                        EXCEPT !.fault = "compress", !.checked = TRUE]
        /\ UNCHANGED <<window, indexedDB, timers, now, queryCache, fileCache, localStorage>>

\* A call of getStats().
GetStats ==
    /\ last' = [Called("getStats", 0, NoReturn, FALSE, FALSE) EXCEPT
                    !.ret = [kind |-> "stats", v |-> getStats(stats, memoryCache)]]
    /\ UNCHANGED <<window, indexedDB, timers, now, memoryCache, dataCache, queryCache,
                   fileCache, stats, localStorage, ops, written, evictRun>>

\* ------------------------------------------------- timers and the clock
\* checkMemoryUsage, every 10 s: evict when over the byte or the item limit.
CheckMemoryUsage ==
    /\ timers.memoryMonitor
    /\ LET ev == IF SumSizes(memoryCache) > maxMemorySize
                    \/ Len(memoryCache) > maxMemoryItems
                 THEN evictItems(memoryCache, stats)
                 ELSE [mem |-> memoryCache, stats |-> stats, run |-> evictRun]
       IN  /\ memoryCache' = ev.mem
           /\ stats' = ev.stats
           /\ evictRun' = ev.run
    /\ last' = Called("checkMemoryUsage", 0, NoReturn, FALSE, FALSE)
    /\ UNCHANGED <<window, indexedDB, timers, now, dataCache, queryCache, fileCache,
                   localStorage, ops, written>>

\* cleanupExpiredItems, every 60 s: drop the expired entries from memory.
CleanupExpiredItems ==
    /\ timers.cleanupInterval
    /\ memoryCache' = SelectSeq(memoryCache, LAMBDA e : ~isExpired(e, now))
    /\ last' = Called("cleanupExpiredItems", 0, NoReturn, FALSE, FALSE)
    /\ UNCHANGED <<window, indexedDB, timers, now, dataCache, queryCache, fileCache,
                   stats, localStorage, ops, written, evictRun>>

Tick ==
    /\ now < MaxTime
    /\ now' = now + 1
    /\ last' = Called("tick", 0, NoReturn, FALSE, FALSE)
    /\ UNCHANGED <<window, indexedDB, timers, memoryCache, dataCache, queryCache,
                   fileCache, stats, localStorage, ops, written, evictRun>>

\* ------------------------------------------------------ init, destroy
\* loadStatsFromStorage: the saved statistics over the instance's.
loadStatsFromStorage(st, saved) == IF saved.present THEN saved.stats ELSE st

\* init(), from the moment initIndexedDB settles: the handle if the open
\* succeeded, then setupMemoryManagement and loadStatsFromStorage.
InitResolves(opened) ==
    /\ life.init = "pending"
    /\ indexedDB' = IF window.indexedDB /\ opened THEN "open" ELSE indexedDB
    /\ timers' = [memoryMonitor |-> TRUE, cleanupInterval |-> TRUE]
    /\ stats' = loadStatsFromStorage(stats, localStorage)
    /\ life' = [life EXCEPT !.init = "done"]
    /\ last' = Called("init", 0, NoReturn, FALSE, FALSE)
    /\ UNCHANGED <<window, now, memoryCache, dataCache, queryCache, fileCache,
                   localStorage, ops, written, evictRun, calls, batch, twin, codec, queried, warm, setCall, reads, getCall, processor>>

\* clearInterval that starts an interval that is not running.
clearInterval_toggle(running) == ~running

\* `if (handle) clearInterval(handle)`: the interval no longer runs.
clearInterval(running) == FALSE

\* IDBDatabase.close(): a closed connection stays closed.
closeDatabase(handle) == IF handle = "null" THEN "null" ELSE "closed"

\* destroy(): both intervals, the memory tier, the connection.
Destroy ==
    /\ timers' = [memoryMonitor |-> clearInterval(timers.memoryMonitor),
                  cleanupInterval |-> clearInterval(timers.cleanupInterval)]
    /\ memoryCache' = <<>>
    /\ indexedDB' = closeDatabase(indexedDB)
    /\ life' = [life EXCEPT !.destroyed = IF @ < 2 THEN @ + 1 ELSE @]
    /\ written' = [k \in DOMAIN written |-> NotWritten]
    /\ ops' = ops + 1
    /\ last' = Called("destroy", 0, NoReturn, memoryCache # <<>>, indexedDB = "open")
    /\ UNCHANGED <<window, now, dataCache, queryCache, fileCache, stats, localStorage,
                   evictRun, calls, batch, twin, codec, queried, warm, setCall, reads, getCall, processor>>

\* set(key, value, options) on a closed connection: transaction() throws in
\* setInIndexedDB, so set rejects with the memory write done.
SetOnClosed(key, value, o) ==
    LET item == cacheItem(window, key, value, o, now)
        st == statsAfterCompress(window, value, o, stats)
    IN  /\ indexedDB = "closed"
        /\ st.compressionRatio.d <= MaxRatioDen
        /\ memoryCache' = MapSet(memoryCache, key, item)
        /\ stats' = st
        /\ written' = [written EXCEPT ![key] = NotWritten]
        /\ ops' = ops + 1
        /\ last' = [Called("set", key, Raised, Has(memoryCache, key),
                            key \in DOMAIN dataCache) EXCEPT !.fault = "closed"]
        /\ UNCHANGED <<window, indexedDB, timers, now, dataCache, queryCache, fileCache,
                       localStorage, evictRun, calls, batch, life, twin, codec, queried, warm, setCall, reads, getCall, processor>>

\* get(key) of a key not in memory on a closed connection: transaction()
\* throws in getFromIndexedDB, so get rejects.
GetOnClosed(key) ==
    /\ indexedDB = "closed"
    /\ ~Has(memoryCache, key)
    /\ ops' = ops + 1
    /\ last' = [Called("get", key, Raised, FALSE, key \in DOMAIN dataCache)
                    EXCEPT !.fault = "closed"]
    /\ UNCHANGED <<window, indexedDB, timers, now, memoryCache, dataCache, queryCache,
                   fileCache, stats, localStorage, written, evictRun,
                   calls, batch, life, twin, codec, queried, warm, setCall, reads, getCall, processor>>

\* ---------------------------------------------------- invalidateByTag
Tags == {"file", "query"}

\* A tag test that matches the entries carrying the tag alone.
Tagged_exact(item, tag) == item.tags = {tag}

\* item.tags && item.tags.includes(tag)
Tagged(item, tag) == tag \in item.tags

\* invalidateByTag(tag): collect the keys of the in-memory entries carrying
\* the tag, then delete(key) for each.
InvalidateByTag(tag) ==
    LET toDelete == {memoryCache[i].key : i \in {j \in 1..Len(memoryCache) :
                                                  Tagged(memoryCache[j], tag)}}
    IN  /\ memoryCache' = SelectSeq(memoryCache, LAMBDA e : e.key \notin toDelete)
        /\ dataCache' = IF indexedDB = "open"
                        THEN [k \in DOMAIN dataCache \ toDelete |-> dataCache[k]]
                        ELSE dataCache
        /\ written' = [k \in DOMAIN written |->
                           IF k \in toDelete THEN NotWritten ELSE written[k]]
        /\ ops' = ops + 1
        /\ last' = [Called("invalidateByTag", 0, NoReturn, toDelete # {},
                            toDelete \cap DOMAIN dataCache # {}) EXCEPT !.tag = tag]
        /\ UNCHANGED <<window, indexedDB, timers, now, queryCache, fileCache, stats,
                       localStorage, evictRun, calls, batch, life, twin, codec, queried, warm, setCall, reads, getCall, processor>>

\* ------------------------------------------------------- getOrCompute
\* The callers that may have a getOrCompute call in flight at once.
Callers == 1..NumCallers

\* A caller with no call made yet.
Idle ==
    [pc |-> "idle", key |-> 0, options |-> DefaultOptions, held |-> FALSE,
     cached |-> NoValue, result |-> NoValue, invoked |-> 0, stored |-> <<>>,
     failed |-> FALSE, pre |-> [mem |-> <<>>, db |-> EmptyStore], ret |-> NoReturn,
     got |-> 0, wrote |-> 0]

\* Whether get would find a live entry for the key: one found and not expired.
Holds(key) == Found(key) # <<>> /\ ~isExpired(Found(key)[1], now)

\* What computeFn does when invoked: it resolves with a value or it rejects.
ComputeOutcomes == {Returned(V7), Returned(V42), Raised}

\* getOrCompute that goes on to set after a computeFn that rejected.
GocAfterCompute_swallow(outcome) == "set"

\* `result = await computeFn()`: a rejection leaves getOrCompute there, a
\* result goes on to set.
GocAfterCompute(outcome) == IF outcome.kind = "throw" THEN "done" ELSE "set"

\* getOrCompute, line 539: `await this.get(key)`. A value ends the call, null
\* goes on to computeFn; a get that raises ends the call with its error.
GocGet(p, key, o) ==
    /\ calls[p].pc \in {"idle", "done"}
    /\ Get(key)
    /\ calls' = [calls EXCEPT ![p] =
                    [Idle EXCEPT !.pc = IF last'.ret = ReturnedNull THEN "compute" ELSE "done",
                                 !.key = key, !.options = o,
                                 !.held = Holds(key),
                                 !.cached = written[key].value,
                                 !.pre = [mem |-> memoryCache, db |-> dataCache],
                                 !.ret = IF last'.ret = ReturnedNull THEN NoReturn ELSE last'.ret,
                                 !.got = ops']]
    /\ UNCHANGED <<batch, life, twin, codec, queried, warm, setCall, reads, getCall, processor>>

\* set of getOrCompute from the compress call on (lines 101-117): the entry,
\* the memory write and the put request. Requests on one store run in the
\* order they were made, so the store takes the record here.
GocWrite(p, c) ==
    LET item == cacheItem(window, c.key, c.result, c.options, now)
        st == statsAfterCompress(window, c.result, c.options, stats)
    IN  /\ st.compressionRatio.d <= MaxRatioDen
        /\ memoryCache' = MapSet(memoryCache, c.key, item)
        /\ dataCache' = IF indexedDB = "open" THEN setInIndexedDB(dataCache, item)
                        ELSE dataCache
        /\ stats' = st
        /\ written' = [written EXCEPT ![c.key] =
                           [value |-> c.result, timestamp |-> now, ttl |-> c.options.ttl]]
        /\ ops' = ops + 1
        /\ calls' = [calls EXCEPT ![p] =
                        [c EXCEPT !.pc = "put", !.stored = <<item>>, !.wrote = ops']]
        /\ last' = Called("gocWrite", c.key, NoReturn, Has(memoryCache, c.key),
                          c.key \in DOMAIN dataCache)
        /\ UNCHANGED <<window, indexedDB, timers, now, queryCache, fileCache, localStorage,
                       evictRun, batch, life, twin, codec, queried, warm, setCall, reads, getCall, processor>>

\* getOrCompute, lines 543-546: computeFn settles. A rejection ends the call;
\* a result goes to set, which writes at once without compression and after
\* `await this.compress(value)` with it.
GocCompute(p, outcome) ==
    /\ calls[p].pc = "compute"
    /\ LET c == [calls[p] EXCEPT !.invoked = @ + 1, !.result = outcome.v,
                                 !.failed = (outcome.kind = "throw")]
       IN  IF GocAfterCompute(outcome) = "done"
           THEN /\ calls' = [calls EXCEPT ![p] = [c EXCEPT !.pc = "done", !.ret = Raised]]
                /\ last' = Called("gocComputeFails", c.key, Raised, Has(memoryCache, c.key),
                                  c.key \in DOMAIN dataCache)
                /\ UNCHANGED <<window, indexedDB, timers, now, memoryCache, dataCache,
                               queryCache, fileCache, stats, localStorage, ops, written,
                               evictRun, batch, life, twin, codec, queried, warm, setCall, reads, getCall, processor>>
           ELSE IF c.options.compress
           THEN /\ calls' = [calls EXCEPT ![p] = [c EXCEPT !.pc = "set"]]
                /\ last' = Called("gocCompute", c.key, NoReturn, Has(memoryCache, c.key),
                                  c.key \in DOMAIN dataCache)
                /\ UNCHANGED <<window, indexedDB, timers, now, memoryCache, dataCache,
                               queryCache, fileCache, stats, localStorage, ops, written,
                               evictRun, batch, life, twin, codec, queried, warm, setCall, reads, getCall, processor>>
           ELSE GocWrite(p, c)

\* set of getOrCompute once compress has resolved.
GocSetWrite(p) ==
    /\ calls[p].pc = "set"
    /\ GocWrite(p, calls[p])

\* set of getOrCompute once the put has succeeded (lines 120-123), and the
\* return of getOrCompute (line 549).
GocSetDone(p) ==
    /\ calls[p].pc = "put"
    /\ LET ev == checkEviction(memoryCache, stats, evictRun)
       IN  /\ memoryCache' = ev.mem
           /\ stats' = ev.stats
           /\ evictRun' = ev.run
    /\ calls' = [calls EXCEPT ![p] =
                    [@ EXCEPT !.pc = "done", !.ret = Returned(calls[p].result)]]
    /\ last' = Called("getOrCompute", calls[p].key, Returned(calls[p].result),
                      Has(memoryCache, calls[p].key), calls[p].key \in DOMAIN dataCache)
    /\ UNCHANGED <<window, indexedDB, timers, now, dataCache, queryCache, fileCache,
                   localStorage, ops, written, batch, life, twin, codec, queried, warm, setCall, reads, getCall, processor>>

\* ---------------------------------------------------- setBatch, getBatch
NoBatch ==
    [op |-> "none", items |-> <<>>, pending |-> {}, settled |-> <<>>,
     individual |-> <<>>, returned |-> FALSE, ret |-> NoReturn, results |-> <<>>]

\* Promise.all that lists the results in the order the promises settled.
PromiseAll_settleOrder(n, settled) == [i \in 1..n |-> settled[i].ret]

\* Promise.all over n promises, all fulfilled: the result of promise i at
\* position i, whenever it settled.
PromiseAll(n, settled) ==
    [i \in 1..n |->
        (CHOOSE e \in {settled[j] : j \in 1..Len(settled)} : e.index = i).ret]

\* items.map(...) / keys.map(...): one promise per element.
BatchCalled(op, items) ==
    /\ batch.op = "none" \/ batch.returned
    /\ batch' = [NoBatch EXCEPT !.op = op, !.items = items,
                                !.pending = 1..Len(items),
                                !.individual = [i \in 1..Len(items) |-> NoReturn]]
    /\ last' = Called(op, 0, NoReturn, FALSE, FALSE)
    /\ UNCHANGED <<window, indexedDB, timers, now, memoryCache, dataCache, queryCache,
                   fileCache, stats, localStorage, ops, written, evictRun,
                   calls, life, twin, codec, queried, warm, setCall, reads, getCall, processor>>

SetBatch(items) == BatchCalled("setBatch", items)

GetBatch(keys) == BatchCalled("getBatch", keys)

Settled(i) ==
    [batch EXCEPT !.pending = @ \ {i},
                  !.settled = Append(@, [index |-> i, ret |-> last'.ret]),
                  !.individual[i] = last'.ret]

\* The set of element i of a setBatch runs; the sets of a batch settle in
\* any order.
BatchSet(i) ==
    /\ batch.op = "setBatch"
    /\ i \in batch.pending
    /\ Set(batch.items[i].key, batch.items[i].value, batch.items[i].options)
    /\ batch' = Settled(i)
    /\ UNCHANGED <<calls, life, twin, codec, queried, warm, setCall, reads, getCall, processor>>

\* The get of element i of a getBatch runs; the gets of a batch settle in
\* any order.
BatchGet(i) ==
    /\ batch.op = "getBatch"
    /\ i \in batch.pending
    /\ Get(batch.items[i])
    /\ batch' = Settled(i)
    /\ UNCHANGED <<calls, life, twin, codec, queried, warm, setCall, reads, getCall, processor>>

\* `return await Promise.all(promises)`: the list once every promise is
\* fulfilled, the first rejection otherwise.
BatchReturn ==
    /\ batch.op # "none"
    /\ batch.pending = {}
    /\ ~batch.returned
    /\ LET rejected == \E j \in 1..Len(batch.settled) : batch.settled[j].ret = Raised
       IN  /\ batch' = [batch EXCEPT
                           !.returned = TRUE,
                           !.ret = IF rejected THEN Raised ELSE NoReturn,
                           !.results = IF rejected THEN <<>>
                                       ELSE PromiseAll(Len(batch.items), batch.settled)]
           /\ last' = Called(batch.op, 0, batch'.ret, FALSE, FALSE)
    /\ UNCHANGED <<window, indexedDB, timers, now, memoryCache, dataCache, queryCache,
                   fileCache, stats, localStorage, ops, written, evictRun,
                   calls, life, twin, codec, queried, warm, setCall, reads, getCall, processor>>

\* ------------------------------------- a second, memory-only instance
\* The instance the same page would have without indexedDB: its memory
\* tier, its statistics and what its last call returned.
NoTwin == [on |-> FALSE, memoryCache |-> <<>>, stats |-> ZeroStats, ret |-> NoReturn]

\* set(key, value, options) with this.indexedDB null.
twinSet(tw, key, value, o) ==
    LET item == cacheItem(window, key, value, o, now)
        st == statsAfterCompress(window, value, o, tw.stats)
        ev == checkEviction(MapSet(tw.memoryCache, key, item), st, NoEvictRun)
    IN  [tw EXCEPT !.memoryCache = ev.mem, !.stats = ev.stats, !.ret = ReturnedTrue]

\* get(key) with this.indexedDB null.
twinGet(tw, key) ==
    IF ~Has(tw.memoryCache, key)
    THEN [tw EXCEPT !.stats = recordMiss(@), !.ret = ReturnedNull]
    ELSE LET item == MapGet(tw.memoryCache, key)
             touched == [item EXCEPT !.accessCount = @ + 1, !.lastAccessed = now]
         IN  IF isExpired(item, now)
             THEN [tw EXCEPT !.memoryCache = MapDelete(@, key),
                             !.stats = recordMiss(recordHit(@)),
                             !.ret = ReturnedNull]
             ELSE [tw EXCEPT !.memoryCache = MapSet(@, key, touched),
                             !.stats = recordHit(@),
                             !.ret = IF item.compressed THEN decompress(window, item.value)
                                     ELSE Returned(item.value.data)]

\* delete(key) with this.indexedDB null.
twinDelete(tw, key) ==
    [tw EXCEPT !.memoryCache = MapDelete(@, key), !.ret = ReturnedTrue]

\* checkMemoryUsage of the second instance.
twinCheckMemoryUsage(tw) ==
    IF SumSizes(tw.memoryCache) > maxMemorySize \/ Len(tw.memoryCache) > maxMemoryItems
    THEN LET ev == evictItems(tw.memoryCache, tw.stats)
         IN  [tw EXCEPT !.memoryCache = ev.mem, !.stats = ev.stats]
    ELSE tw

\* cleanupExpiredItems of the second instance.
twinCleanupExpiredItems(tw) ==
    [tw EXCEPT !.memoryCache = SelectSeq(@, LAMBDA e : ~isExpired(e, now))]

\* --------------------------------------------------- queries and files
\* The query hashes and file ids of the callers.
Hashes == Keys

\* No cacheQuery call made for any hash.
NoQueries == [h \in Hashes |-> <<>>]

\* cacheQuery(queryHash, result) of a caller that remembers what it gave.
CacheQueryCall(hash, result) ==
    /\ CacheQuery(hash, result)
    /\ queried' = [queried EXCEPT ![hash] = <<result>>]
    /\ UNCHANGED <<calls, batch, life, twin, codec, warm, setCall, reads, getCall, processor>>

\* isExpired(cacheItem) of a queryCache record: it has no ttl, and
\* `undefined > 0` is false.
isExpiredRecord(item, t) == "ttl" \in DOMAIN item /\ isExpired(item, t)

\* getCachedQuery(queryHash): null without the connection; else the record
\* of the queryCache store, its lastAccessed put back, and its value.
GetCachedQuery(hash) ==
    LET found == indexedDB = "open" /\ hash \in DOMAIN queryCache
                     /\ ~isExpiredRecord(queryCache[hash], now)
    IN  /\ indexedDB # "closed"
        /\ queryCache' =
               IF found
               THEN setInIndexedDB(queryCache, [queryCache[hash] EXCEPT !.lastAccessed = now])
               ELSE queryCache
        /\ ops' = ops + 1
        /\ last' = Called("getCachedQuery", hash,
                          IF found THEN Returned(queryCache[hash].value) ELSE ReturnedNull,
                          FALSE, hash \in DOMAIN queryCache)
        /\ UNCHANGED <<window, indexedDB, timers, now, memoryCache, dataCache, fileCache,
                       stats, localStorage, written, evictRun,
                       calls, batch, life, twin, codec, queried, warm, setCall, reads, getCall, processor>>

\* The options cacheFile passes to set.
FileOptions == [ttl |-> FileTtl, compress |-> TRUE, priority |-> 2, tags |-> {"file"}]

\* cacheFile(fileId, fileData): set under the file's key with FileOptions.
CacheFile(fileId, fileData) == Set(fileId, fileData, FileOptions)

\* getCachedFile(fileId): get under the file's key.
GetCachedFile(fileId) == Get(fileId)

\* ---------------------------------------------------------- warmCache
NoWarm == [files |-> <<>>, cached |-> {}, ret |-> NoReturn]

\* The files given to warmCache: file i has id i, rows or none, and can be
\* serialized or not (an object with a cycle).
WarmFiles ==
    UNION {[1..n -> [rows : BOOLEAN, serializable : BOOLEAN]] : n \in 1..NumKeys}

\* The sample queries of a file: count_, headers_ and summary_ of its id.
sampleQueries(id) == {<<"count", id>>, <<"headers", id>>, <<"summary", id>>}

\* put of the records of the keys, one after the other, into a store.
RECURSIVE PutAll(_, _, _)
PutAll(store, hashes, t) ==
    IF hashes = {} THEN store
    ELSE LET h == CHOOSE x \in hashes : TRUE
         IN  PutAll(setInIndexedDB(store, [key |-> h, value |-> <<"precomputed">>,
                                           queryType |-> "general", timestamp |-> t,
                                           lastAccessed |-> t]),
                    hashes \ {h}, t)

\* One round of the loop of warmCache for a file that set accepts:
\* cacheFile(file.id, file), then cacheQuery of each sample query if the file
\* has rows.
warmOne(st, id, file) ==
    LET item == cacheItem(window, id, V7, FileOptions, now)
        ev == checkEviction(MapSet(st.mem, id, item),
                            statsAfterCompress(window, V7, FileOptions, st.stats), st.run)
    IN  [mem |-> ev.mem,
         db |-> IF indexedDB = "open" THEN setInIndexedDB(st.db, item) ELSE st.db,
         qc |-> IF indexedDB = "open" /\ file.rows
                THEN PutAll(st.qc, sampleQueries(id), now) ELSE st.qc,
         stats |-> ev.stats,
         run |-> ev.run,
         cached |-> st.cached \cup {id},
         ret |-> st.ret]

\* The loop of warmCache from file i on: cacheFile of a file that cannot be
\* serialized rejects, and with it warmCache, there being no try around it.
RECURSIVE warmFrom(_, _, _)
warmFrom(i, files, st) ==
    IF i > Len(files) THEN st
    ELSE IF ~files[i].serializable THEN [st EXCEPT !.ret = Raised]
    ELSE warmFrom(i + 1, files, warmOne(st, i, files[i]))

\* warmCache(files)
WarmCache(files) ==
    LET end == warmFrom(1, files,
                        [mem |-> memoryCache, db |-> dataCache, qc |-> queryCache,
                         stats |-> stats, run |-> evictRun, cached |-> {},
                         ret |-> NoReturn])
    IN  /\ indexedDB # "closed"
        /\ end.stats.compressionRatio.d <= MaxRatioDen
        /\ memoryCache' = end.mem
        /\ dataCache' = end.db
        /\ queryCache' = end.qc
        /\ stats' = end.stats
        /\ evictRun' = end.run
        /\ written' = [k \in DOMAIN written |->
                           IF k \in end.cached
                           THEN [value |-> V7, timestamp |-> now, ttl |-> FileTtl]
                           ELSE written[k]]
        /\ warm' = [files |-> files, cached |-> end.cached, ret |-> end.ret]
        /\ ops' = ops + 1
        /\ last' = Called("warmCache", 0, end.ret, FALSE, FALSE)
        /\ UNCHANGED <<window, indexedDB, timers, now, fileCache, localStorage,
                       calls, batch, life, twin, codec, queried, setCall, reads, getCall, processor>>

\* ------------------------------------------ set, statement by statement
\* No such call made: pc is the number of statements executed, order what
\* was executed.
NoSetCall ==
    [pc |-> 0, key |-> 0, value |-> NoValue, options |-> DefaultOptions, order |-> <<>>,
     ret |-> NoReturn]

\* The statements of set with checkEviction ahead of the durable write.
setProgram_checkFirst(o, open) ==
    (IF o.compress THEN <<"compress">> ELSE <<>>)
        \o <<"memoryCache.set", "checkEviction">>
        \o (IF open THEN <<"store.put", "onsuccess">> ELSE <<>>)

\* The statements of set(key, value, options) in the order of the code:
\* `await this.compress(value)` if asked (line 101), this.memoryCache.set
\* (line 112), then with a connection store.put in setInIndexedDB and the
\* onsuccess that set awaits (lines 115-117, 341-344), then checkEviction
\* (line 120).
setProgram(o, open) ==
    (IF o.compress THEN <<"compress">> ELSE <<>>)
        \o <<"memoryCache.set">>
        \o (IF open THEN <<"store.put", "onsuccess">> ELSE <<>>)
        \o <<"checkEviction">>

\* The call is suspended at an await (or there is none): callbacks and
\* other calls run only then.
AtAwait ==
    IF setCall.key = 0 \/ setCall.ret # NoReturn THEN TRUE
    ELSE IF setCall.pc = 0 THEN FALSE
    ELSE setCall.order[Len(setCall.order)] \in {"compress", "store.put"}

\* set(key, value, options) is called: nothing of it has run yet.
SetCalled(key, value, o) ==
    /\ setCall.key = 0 \/ setCall.ret # NoReturn
    /\ setCall' = [NoSetCall EXCEPT !.key = key, !.value = value, !.options = o]
    /\ ops' = ops + 1
    /\ last' = Called("setCalled", key, NoReturn, Has(memoryCache, key),
                      key \in DOMAIN dataCache)
    /\ UNCHANGED <<window, indexedDB, timers, now, memoryCache, dataCache, queryCache,
                   fileCache, stats, localStorage, written, evictRun,
                   calls, batch, life, twin, codec, queried, warm, reads, getCall, processor>>

\* The next statement of the set call runs.
SetStep ==
    LET program == setProgram(setCall.options, indexedDB = "open")
        stmt == program[setCall.pc + 1]
        key == setCall.key
        ev == checkEviction(memoryCache, stats, evictRun)
        st == statsAfterCompress(window, setCall.value, setCall.options, stats)
    IN  /\ setCall.ret = NoReturn
        /\ setCall.key # 0
        /\ setCall.pc < Len(program)
        /\ stmt = "compress" => st.compressionRatio.d <= MaxRatioDen
        /\ memoryCache' =
               IF stmt = "memoryCache.set"
               THEN MapSet(memoryCache, key,
                           cacheItem(window, key, setCall.value, setCall.options, now))
               ELSE IF stmt = "checkEviction" THEN ev.mem
               ELSE memoryCache
        /\ dataCache' = IF stmt = "store.put"
                        THEN setInIndexedDB(dataCache, MapGet(memoryCache, key))
                        ELSE dataCache
        /\ stats' = IF stmt = "compress" THEN st
                    ELSE IF stmt = "checkEviction" THEN ev.stats
                    ELSE stats
        /\ evictRun' = IF stmt = "checkEviction" THEN ev.run ELSE evictRun
        /\ written' = IF stmt = "memoryCache.set"
                      THEN [written EXCEPT ![key] =
                               [value |-> setCall.value, timestamp |-> now,
                                ttl |-> setCall.options.ttl]]
                      ELSE written
        /\ setCall' = [setCall EXCEPT
                           !.pc = @ + 1,
                           !.order = Append(@, stmt),
                           !.ret = IF setCall.pc + 1 = Len(program) THEN ReturnedTrue
                                   ELSE NoReturn]
        /\ last' = [Called(stmt, key, setCall'.ret, Has(memoryCache, key),
                            key \in DOMAIN dataCache)
                        EXCEPT !.checked = (stmt = "checkEviction")]
        /\ UNCHANGED <<window, indexedDB, timers, now, queryCache, fileCache, localStorage,
                       ops, calls, batch, life, twin, codec, queried, warm, reads, getCall, processor>>

\* --------------------------------------------- the reads of each key
\* Everything but the count of reads stays as it is.
QuietButReads ==
    UNCHANGED <<calls, batch, life, twin, codec, queried, warm, setCall, getCall, processor>>

\* set(key, value, options) of a caller that counts its reads from here on.
SetCounted(key, value, o) ==
    /\ Set(key, value, o)
    /\ reads' = [reads EXCEPT ![key] = 0]
    /\ QuietButReads

\* get(key) of a caller that counts the gets that returned a value.
GetCounted(key) ==
    /\ Get(key)
    /\ reads' = [reads EXCEPT ![key] = IF last'.ret.kind \in {"null", "throw"} THEN @
                                       ELSE @ + 1]
    /\ QuietButReads

\* ------------------------------------------- get, suspended on its read
NoGetCall == [pc |-> "none", key |-> 0, found |-> <<>>, ret |-> NoReturn]

\* Everything but the suspended get stays as it is.
QuietButGet ==
    UNCHANGED <<calls, batch, life, twin, codec, queried, warm, setCall, reads, processor>>

\* get(key) of a key that is not in memory, up to its await (lines 127-136):
\* the read request on dataCache is made. Requests on one store run in the
\* order they were made, so what it will find is fixed here.
GetStart(key) ==
    /\ getCall.pc # "reading"
    /\ ~Has(memoryCache, key)
    /\ indexedDB = "open"
    /\ getCall' = [pc |-> "reading", key |-> key,
                   found |-> IF key \in DOMAIN dataCache THEN <<dataCache[key]>> ELSE <<>>,
                   ret |-> NoReturn]
    /\ ops' = ops + 1
    /\ last' = Called("getStart", key, NoReturn, FALSE, key \in DOMAIN dataCache)
    /\ UNCHANGED <<window, indexedDB, timers, now, memoryCache, dataCache, queryCache,
                   fileCache, stats, localStorage, written, evictRun>>
    /\ QuietButGet

\* The same get once the read has succeeded (lines 137-165): nothing found
\* is a miss; a record is put into memory and counted as a hit, then, if
\* expired, deleted from both tiers and counted as a miss, else touched and
\* decoded.
GetResume ==
    LET key == getCall.key
        item == getCall.found[1]
        touched == [item EXCEPT !.accessCount = @ + 1, !.lastAccessed = now]
        ret == IF getCall.found = <<>> THEN ReturnedNull
               ELSE IF isExpired(item, now) THEN ReturnedNull
               ELSE IF item.compressed THEN decompress(window, item.value)
               ELSE Returned(item.value.data)
    IN  /\ getCall.pc = "reading"
        /\ memoryCache' =
               IF getCall.found = <<>> THEN memoryCache
               ELSE IF isExpired(item, now) THEN MapDelete(memoryCache, key)
               ELSE MapSet(memoryCache, key, touched)
        /\ dataCache' =
               IF getCall.found # <<>> /\ isExpired(item, now)
               THEN deleteFromIndexedDB(dataCache, key)
               ELSE dataCache
        /\ stats' = IF getCall.found = <<>> THEN recordMiss(stats)
                    ELSE IF isExpired(item, now) THEN recordMiss(recordHit(stats))
                    ELSE recordHit(stats)
        /\ localStorage' = saveStatsToStorage(stats')
        /\ getCall' = [getCall EXCEPT !.pc = "done", !.ret = ret]
        /\ last' = Called("get", key, ret, Has(memoryCache, key), key \in DOMAIN dataCache)
        /\ UNCHANGED <<window, indexedDB, timers, now, queryCache, fileCache, ops,
                       written, evictRun>>
        /\ QuietButGet

\* ------------------------------------------------------- DataProcessor
\* ------------------------------------- the cache of the DataProcessor
\* this.maxCacheSize (50 in the code), the keys its caller uses and the
\* calls the caller makes.
maxCacheSize == 3
NumProcKeys == 4
MaxProcOps == 5

ProcKeys == 1..NumProcKeys

\* The constructor: an empty Map, this.db not yet set.
NoProcessor == [cache |-> <<>>, store |-> EmptyStore, db |-> FALSE]

\* Everything but the DataProcessor stays as it is.
ProcessorOnly ==
    UNCHANGED <<window, indexedDB, timers, now, memoryCache, dataCache, queryCache,
                fileCache, stats, localStorage, written, evictRun, calls, batch, life,
                twin, codec, queried, warm, setCall, reads, getCall>>

\* initIndexedDB of the DataProcessor: openDatabase() has resolved.
ProcessorDbOpens ==
    /\ window.indexedDB
    /\ ~processor.db
    /\ processor' = [processor EXCEPT !.db = TRUE]
    /\ last' = Called("initIndexedDB", 0, NoReturn, FALSE, FALSE)
    /\ UNCHANGED ops
    /\ ProcessorOnly

\* setCache(key, value): with maxCacheSize entries or more the first key of
\* the Map is deleted, whatever key is being set; then Map.set, and a put of
\* the record when this.db is set.
setCache(p, key, value) ==
    LET room == IF Len(p.cache) >= maxCacheSize
                THEN MapDelete(p.cache, p.cache[1].key)
                ELSE p.cache
    IN  [p EXCEPT !.cache = MapSet(room, key, [key |-> key, value |-> value]),
                  !.store = IF p.db
                            THEN setInIndexedDB(p.store, [key |-> key, value |-> value])
                            ELSE @]

SetCache(key, value) ==
    /\ processor' = setCache(processor, key, value)
    /\ ops' = ops + 1
    /\ last' = Called("setCache", key, NoReturn, Has(processor.cache, key),
                      key \in DOMAIN processor.store)
    /\ ProcessorOnly

\* getFromCache(key): the value in the Map; else, with this.db set, the
\* record of the store, copied into the Map by Map.set with no look at its
\* size; else null.
GetFromCache(key) ==
    LET hit == Has(processor.cache, key)
        stored == processor.db /\ key \in DOMAIN processor.store
        ret == IF hit THEN Returned(MapGet(processor.cache, key).value)
               ELSE IF stored THEN Returned(processor.store[key].value)
               ELSE ReturnedNull
    IN  /\ processor' =
               IF ~hit /\ stored
               THEN [processor EXCEPT !.cache = MapSet(@, key, processor.store[key])]
               ELSE processor
        /\ ops' = ops + 1
        /\ last' = Called("getFromCache", key, ret, hit, stored)
        /\ ProcessorOnly

\* --------------------------------------------- the codec on its own
NoCodec ==
    [stage |-> "none", value |-> NoValue, payload |-> [form |-> "raw", data |-> NoValue],
     out |-> NoReturn]

\* `await this.compress(value)`: the payload, and the ratio in the statistics.
CodecCompress ==
    /\ codec.stage = "input"
    /\ LET c == compress(window, codec.value)
       IN  /\ codec' = [codec EXCEPT !.stage = "compressed", !.payload = c.payload]
           /\ stats' = [stats EXCEPT !.compressionRatio =
                            updateCompressionRatio(@, c.originalSize, c.compressedSize)]
    /\ last' = Called("compress", 0, NoReturn, FALSE, FALSE)
    /\ UNCHANGED <<window, indexedDB, timers, now, memoryCache, dataCache, queryCache,
                   fileCache, localStorage, ops, written, evictRun, calls, batch, life, twin, queried, warm, setCall, reads, getCall, processor>>

\* `await this.decompress(payload)`
CodecDecompress ==
    /\ codec.stage = "compressed"
    /\ codec' = [codec EXCEPT !.stage = "decompressed",
                              !.out = decompress(window, codec.payload)]
    /\ last' = Called("decompress", 0, codec'.out, FALSE, FALSE)
    /\ UNCHANGED <<window, indexedDB, timers, now, memoryCache, dataCache, queryCache,
                   fileCache, stats, localStorage, ops, written, evictRun,
                   calls, batch, life, twin, queried, warm, setCall, reads, getCall, processor>>


\* ------------------------------------------------------ specifications
\* No cacheQuery, warmCache, statement-by-statement set, suspended get or
\* DataProcessor call made yet.
Fresh ==
    /\ queried = NoQueries /\ warm = NoWarm /\ setCall = NoSetCall
    /\ getCall = NoGetCall /\ processor = NoProcessor

\* A ready instance (init() has resolved) on a fresh profile, in each of
\* the runtimes the code provides for.
ReadyInstance(keys) ==
    /\ window \in [indexedDB : BOOLEAN, CompressionStream : BOOLEAN]
    /\ indexedDB = IF window.indexedDB THEN "open" ELSE "null"
    /\ timers = [memoryMonitor |-> TRUE, cleanupInterval |-> TRUE]
    /\ now = 1
    /\ memoryCache = <<>>
    /\ dataCache = EmptyStore
    /\ queryCache = EmptyStore
    /\ fileCache = EmptyStore
    /\ stats = ZeroStats
    /\ localStorage = [present |-> FALSE, stats |-> ZeroStats]
    /\ ops = 0
    /\ last = Called("init", 0, NoReturn, FALSE, FALSE)
    /\ written = [k \in keys |-> NotWritten]
    /\ evictRun = NoEvictRun
    /\ calls = [p \in Callers |-> Idle]
    /\ batch = NoBatch
    /\ life = [init |-> "done", destroyed |-> 0]
    /\ Fresh
    /\ reads = [k \in DOMAIN written |-> 0]

Ready(keys) == ReadyInstance(keys) /\ twin = NoTwin /\ codec = NoCodec

Init == Ready(Keys)

\* No getOrCompute or batch call in flight, no step of init(), of the second
\* instance or of the codec on its own.
Quiet == UNCHANGED <<calls, batch, life, twin, codec, queried, warm, setCall, reads, getCall, processor>>

\* One caller awaiting each call, the two timers and the clock.
Next ==
    \/ ops < MaxOps /\ Quiet /\ \E k \in Keys, c \in SetCalls : Set(k, c.value, c.options)
    \/ ops < MaxOps /\ Quiet /\ \E k \in Keys : Get(k)
    \/ ops < MaxOps /\ Quiet /\ \E k \in Keys : Delete(k)
    \/ ops < MaxOps /\ Quiet /\ Clear
    \/ ops < MaxOps /\ Quiet /\ CacheQuery(1, V7)
    \/ Quiet /\ CheckMemoryUsage
    \/ Quiet /\ CleanupExpiredItems
    \/ Quiet /\ Tick

Spec == Init /\ [][Next]_vars

\* The same, with durable requests that may fail.
NextFail ==
    \/ Next
    \/ ops < MaxOps /\ Quiet /\ \E k \in Keys, c \in SetCalls : SetPutFails(k, c.value, c.options)
    \/ ops < MaxOps /\ Quiet /\ \E k \in Keys : GetReadFails(k)

SpecFail == Init /\ [][NextFail]_vars

\* A caller that fills the cache: more keys, plain options, no clock.
InitBound == Ready(BoundKeys)

NextBound ==
    \/ ops < MaxBoundOps /\ Quiet /\ \E k \in BoundKeys, o \in BoundOptions : Set(k, V7, o)
    \/ ops < MaxBoundOps /\ Quiet /\ \E k \in BoundKeys : Get(k)
    \/ Quiet /\ CheckMemoryUsage

SpecBound == InitBound /\ [][NextBound]_vars

\* An in-memory tier of up to EvictMaxN entries put under pressure: every mix
\* of two priorities and three recencies (written at 1, written at 2, written
\* at 1 and read at MaxTime), each entry also in the durable store as set
\* wrote it.
EvictShapes ==
    {[priority |-> p, timestamp |-> r[1], lastAccessed |-> r[2], accessCount |-> r[3]] :
        p \in {0, 1}, r \in {<<1, 0, 0>>, <<2, 0, 0>>, <<1, MaxTime, 1>>}}

EvictEntry(key, shape, read) ==
    LET item == cacheItem([indexedDB |-> TRUE, CompressionStream |-> TRUE], key, V42,
                          [Unimportant EXCEPT !.priority = shape.priority],
                          shape.timestamp)
    IN  IF read
        THEN [item EXCEPT !.lastAccessed = shape.lastAccessed,
                          !.accessCount = shape.accessCount]
        ELSE item

\* The two shapes of the larger tiers: unimportant and new, important and old.
BigShapes == {s \in EvictShapes : s.accessCount = 0 /\ s.priority + s.timestamp = 2}

InitEvict ==
    /\ window = [indexedDB |-> TRUE, CompressionStream |-> TRUE]
    /\ indexedDB = "open"
    /\ timers = [memoryMonitor |-> TRUE, cleanupInterval |-> TRUE]
    /\ now = MaxTime
    /\ \E n \in 1..EvictBigN :
         \E shapes \in [1..n -> IF n <= EvictMaxN THEN EvictShapes ELSE BigShapes] :
           /\ memoryCache = [i \in 1..n |-> EvictEntry(i, shapes[i], TRUE)]
           /\ dataCache = [i \in 1..n |-> EvictEntry(i, shapes[i], FALSE)]
           /\ stats = [ZeroStats EXCEPT
                          !.hits = Cardinality({i \in 1..n : shapes[i].accessCount > 0})]
           /\ written = [k \in 1..EvictBigN |->
                            IF k <= n
                            THEN [value |-> V42, timestamp |-> shapes[k].timestamp, ttl |-> 0]
                            ELSE NotWritten]
    /\ localStorage = saveStatsToStorage(stats)
    /\ queryCache = EmptyStore
    /\ fileCache = EmptyStore
    /\ ops = 0
    /\ last = Called("init", 0, NoReturn, FALSE, FALSE)
    /\ evictRun = NoEvictRun
    /\ calls = [p \in Callers |-> Idle]
    /\ batch = NoBatch
    /\ life = [init |-> "done", destroyed |-> 0]
    /\ twin = NoTwin
    /\ codec = NoCodec
    /\ Fresh
    /\ reads = [k \in DOMAIN written |-> 0]

\* The pressure check of the timer, and one set with its own eviction check.
NextEvict ==
    \/ Quiet /\ CheckMemoryUsage
    \/ ops < 1 /\ Quiet /\ \E k \in {1, EvictBigN} : Set(k, V7, Unimportant)

SpecEvict == InitEvict /\ [][NextEvict]_vars

\* One caller of getOrCompute on a cache that set, delete and the clock have
\* prepared, between two callbacks of the timers.
GocOptions == {DefaultOptions, [ShortLived EXCEPT !.priority = 0]}

NextCompute ==
    \/ ops < MaxOps /\ Quiet /\ calls[1].pc \in {"idle", "done"}
           /\ \E k \in Keys, c \in SetCalls : Set(k, c.value, c.options)
    \/ ops < MaxOps /\ \E k \in Keys, o \in GocOptions : GocGet(1, k, o)
    \/ \E outcome \in {Returned(V7), Raised} : GocCompute(1, outcome)
    \/ GocSetWrite(1)
    \/ GocSetDone(1)
    \/ Quiet /\ calls[1].pc \in {"idle", "done"} /\ CheckMemoryUsage
    \/ Quiet /\ Tick

SpecCompute == Init /\ [][NextCompute]_vars

\* Callers whose getOrCompute calls overlap, one call each.
NextRace ==
    \/ \E p \in Callers, k \in Keys : calls[p].pc = "idle" /\ GocGet(p, k, DefaultOptions)
    \/ \E p \in Callers, outcome \in ComputeOutcomes : GocCompute(p, outcome)
    \/ \E p \in Callers : GocSetWrite(p)
    \/ \E p \in Callers : GocSetDone(p)

SpecRace == Init /\ [][NextRace]_vars

\* A caller of the batch operations, one batch at a time.
BatchItems == {[key |-> k, value |-> V7, options |-> Unimportant] : k \in Keys}

SeqsUpTo(S, n) == UNION {[1..m -> S] : m \in 0..n}

NextBatch ==
    \/ ops < MaxOps /\ \E items \in SeqsUpTo(BatchItems, MaxBatch) : SetBatch(items)
    \/ ops < MaxOps /\ \E keys \in SeqsUpTo(Keys, MaxBatch) : GetBatch(keys)
    \/ \E i \in 1..MaxBatch : BatchSet(i)
    \/ \E i \in 1..MaxBatch : BatchGet(i)
    \/ BatchReturn

SpecBatch == Init /\ [][NextBatch]_vars

\* A caller that tags its entries and invalidates by tag, and the pressure
\* check that leaves entries in the durable store alone.
TagCalls == {[Unimportant EXCEPT !.tags = t] : t \in SUBSET Tags}

NextTag ==
    \/ ops < MaxTagOps /\ Quiet /\ \E k \in Keys, o \in TagCalls : Set(k, V42, o)
    \/ ops < MaxTagOps /\ Quiet /\ \E k \in Keys : Get(k)
    \/ ops < MaxTagOps /\ \E tag \in Tags : InvalidateByTag(tag)
    \/ Quiet /\ CheckMemoryUsage

SpecTag == Init /\ [][NextTag]_vars

\* Two instances of one page, one with indexedDB and one without, given the
\* same calls at the same times; their timers fire together.
InitTwin ==
    /\ ReadyInstance(Keys)
    /\ window.indexedDB
    /\ twin = [NoTwin EXCEPT !.on = TRUE]
    /\ codec = NoCodec

Others == UNCHANGED <<calls, batch, life, codec, queried, warm, setCall, reads, getCall, processor>>

NextTwin ==
    \/ ops < MaxOps /\ Others
           /\ \E k \in Keys, c \in SetCalls :
                  Set(k, c.value, c.options) /\ twin' = twinSet(twin, k, c.value, c.options)
    \/ ops < MaxOps /\ Others /\ \E k \in Keys : Get(k) /\ twin' = twinGet(twin, k)
    \/ ops < MaxOps /\ Others /\ \E k \in Keys : Delete(k) /\ twin' = twinDelete(twin, k)
    \/ Others /\ CheckMemoryUsage /\ twin' = twinCheckMemoryUsage(twin)
    \/ Others /\ CleanupExpiredItems /\ twin' = twinCleanupExpiredItems(twin)
    \/ Quiet /\ Tick

SpecTwin == InitTwin /\ [][NextTwin]_vars

\* An instance from its construction on: init() pending, no interval yet,
\* and callers that use it and destroy it at any moment, the clock at rest.
InitLife ==
    /\ window \in [indexedDB : BOOLEAN, CompressionStream : BOOLEAN]
    /\ indexedDB = "null"
    /\ timers = [memoryMonitor |-> FALSE, cleanupInterval |-> FALSE]
    /\ now = 1
    /\ memoryCache = <<>>
    /\ dataCache = EmptyStore
    /\ queryCache = EmptyStore
    /\ fileCache = EmptyStore
    /\ stats = ZeroStats
    /\ localStorage = [present |-> FALSE, stats |-> ZeroStats]
    /\ ops = 0
    /\ last = Called("constructor", 0, NoReturn, FALSE, FALSE)
    /\ written = [k \in Keys |-> NotWritten]
    /\ evictRun = NoEvictRun
    /\ calls = [p \in Callers |-> Idle]
    /\ batch = NoBatch
    /\ life = [init |-> "pending", destroyed |-> 0]
    /\ twin = NoTwin
    /\ codec = NoCodec
    /\ Fresh
    /\ reads = [k \in DOMAIN written |-> 0]

NextLife ==
    \/ \E opened \in BOOLEAN : InitResolves(opened)
    \/ ops < MaxOps /\ Destroy
    \/ ops < MaxOps /\ Quiet /\ indexedDB # "closed"
           /\ \E k \in Keys, c \in SetCalls : Set(k, c.value, c.options)
    \/ ops < MaxOps /\ \E k \in Keys, c \in SetCalls : SetOnClosed(k, c.value, c.options)
    \/ ops < MaxOps /\ Quiet
           /\ \E k \in Keys :
                  /\ indexedDB # "closed"
                        \/ (Has(memoryCache, k) /\ ~isExpired(MapGet(memoryCache, k), now))
                  /\ Get(k)
    \/ ops < MaxOps /\ \E k \in Keys : GetOnClosed(k)
    \/ Quiet /\ CheckMemoryUsage
    \/ Quiet /\ CleanupExpiredItems

SpecLife == InitLife /\ [][NextLife]_vars

\* The codec applied to each JSON text of up to MaxCodecLen characters: a
\* letter, digits, and the punctuation of strings, arrays and objects.
CodecChars == {"a", "0", "1", "2", "\"", "[", "]", "{", "}"}

CodecValues == {s \in SeqsUpTo(CodecChars, MaxCodecLen) : IsJSON(s)}

InitCodec ==
    /\ ReadyInstance(Keys)
    /\ twin = NoTwin
    /\ \E v \in CodecValues : codec = [NoCodec EXCEPT !.stage = "input", !.value = v]

NextCodec ==
    \/ CodecCompress
    \/ CodecDecompress

SpecCodec == InitCodec /\ [][NextCodec]_vars

\* A caller whose values the codec may fail on: one that cannot be
\* serialized, and gzip streams that throw.
CodecFailCalls == SetCalls \cup {[value |-> V20, options |-> DefaultOptions]}

NextCodecFail ==
    \/ ops < MaxOps /\ Quiet
           /\ \E k \in Keys, c \in CodecFailCalls : Set(k, c.value, c.options)
    \/ ops < MaxOps /\ Quiet
           /\ \E k \in Keys, o \in {DefaultOptions, ShortLived} : SetSerializeFails(k, o)
    \/ ops < MaxOps /\ Quiet
           /\ \E k \in Keys, v \in {V42, VStringA} : SetCompressFails(k, v, DefaultOptions)
    \/ ops < MaxOps /\ Quiet /\ \E k \in Keys : Get(k)

SpecCodecFail == Init /\ [][NextCodecFail]_vars

\* An in-memory tier of plain, tagged and expired entries, each also in the
\* durable store as set wrote it: up to maxMemoryItems + 1 entries of every mix,
\* and larger tiers of plain entries up to EvictBigN.
StatShapes ==
    {[Unimportant EXCEPT !.priority = 1],
     [Unimportant EXCEPT !.tags = {"file"}],
     ShortLived}

StatEntry(key, o) ==
    cacheItem([indexedDB |-> TRUE, CompressionStream |-> TRUE], key, V42, o,
              IF o.ttl > 0 THEN 1 ELSE 2)

InitStats ==
    /\ window = [indexedDB |-> TRUE, CompressionStream |-> TRUE]
    /\ indexedDB = "open"
    /\ timers = [memoryMonitor |-> TRUE, cleanupInterval |-> TRUE]
    /\ now = MaxTime
    /\ \E n \in 1..EvictBigN :
         \E shapes \in [1..n -> IF n <= maxMemoryItems + 1 THEN StatShapes
                                 ELSE {[Unimportant EXCEPT !.priority = 1]}] :
           /\ memoryCache = [i \in 1..n |-> StatEntry(i, shapes[i])]
           /\ dataCache = [i \in 1..n |-> StatEntry(i, shapes[i])]
           /\ written = [k \in 1..EvictBigN |->
                            IF k <= n
                            THEN [value |-> V42, timestamp |-> StatEntry(k, shapes[k]).timestamp,
                                  ttl |-> shapes[k].ttl]
                            ELSE NotWritten]
    /\ stats = ZeroStats
    /\ localStorage = saveStatsToStorage(stats)
    /\ queryCache = EmptyStore
    /\ fileCache = EmptyStore
    /\ ops = 0
    /\ last = Called("init", 0, NoReturn, FALSE, FALSE)
    /\ evictRun = NoEvictRun
    /\ calls = [p \in Callers |-> Idle]
    /\ batch = NoBatch
    /\ life = [init |-> "done", destroyed |-> 0]
    /\ twin = NoTwin
    /\ codec = NoCodec
    /\ Fresh
    /\ reads = [k \in DOMAIN written |-> 0]

\* Every operation that removes entries: set with its eviction check, get
\* with its lazy expiry, delete, invalidateByTag and the two timers.
NextStats ==
    \/ ops < MaxStatOps /\ Quiet /\ \E k \in Keys : Set(k, V7, Unimportant)
    \/ ops < MaxStatOps /\ Quiet /\ \E k \in Keys : Get(k)
    \/ ops < MaxStatOps /\ Quiet /\ \E k \in Keys : Delete(k)
    \/ ops < MaxStatOps /\ \E tag \in Tags : InvalidateByTag(tag)
    \/ Quiet /\ CheckMemoryUsage
    \/ Quiet /\ CleanupExpiredItems

SpecStats == InitStats /\ [][NextStats]_vars

\* A page reloaded: the statistics the previous instance saved are in
\* localStorage, the constructor has returned and init() is awaiting
\* initIndexedDB while the caller already uses the new instance.
SavedStats == [ZeroStats EXCEPT !.hits = 2, !.misses = 1]

InitRestart ==
    /\ window \in [indexedDB : BOOLEAN, CompressionStream : BOOLEAN]
    /\ indexedDB = "null"
    /\ timers = [memoryMonitor |-> FALSE, cleanupInterval |-> FALSE]
    /\ now = 1
    /\ memoryCache = <<>>
    /\ dataCache = EmptyStore
    /\ queryCache = EmptyStore
    /\ fileCache = EmptyStore
    /\ stats = ZeroStats
    /\ localStorage = saveStatsToStorage(SavedStats)
    /\ ops = 0
    /\ last = Called("constructor", 0, NoReturn, FALSE, FALSE)
    /\ written = [k \in Keys |-> NotWritten]
    /\ evictRun = NoEvictRun
    /\ calls = [p \in Callers |-> Idle]
    /\ batch = NoBatch
    /\ life = [init |-> "pending", destroyed |-> 0]
    /\ twin = NoTwin
    /\ codec = NoCodec
    /\ Fresh
    /\ reads = [k \in DOMAIN written |-> 0]

NextRestart ==
    \/ \E opened \in BOOLEAN : InitResolves(opened)
    \/ ops < MaxOps /\ Quiet /\ \E k \in Keys, c \in SetCalls : Set(k, c.value, c.options)
    \/ ops < MaxOps /\ Quiet /\ \E k \in Keys : Get(k)

SpecRestart == InitRestart /\ [][NextRestart]_vars

\* A caller of the query cache next to one of set, get, delete and clear.
NextQuery ==
    \/ ops < MaxOps /\ \E h \in Hashes, r \in {V7, V42} : CacheQueryCall(h, r)
    \/ ops < MaxOps /\ \E h \in Hashes : GetCachedQuery(h)
    \/ ops < MaxOps /\ Quiet /\ \E k \in Keys : Set(k, V42, Unimportant)
    \/ ops < MaxOps /\ Quiet /\ \E k \in Keys : Get(k)
    \/ ops < MaxOps /\ Quiet /\ \E k \in Keys : Delete(k)
    \/ ops < MaxOps /\ Quiet /\ Clear
    \/ Quiet /\ Tick

SpecQuery == Init /\ [][NextQuery]_vars

\* A caller of the file cache, invalidateByTag, the pressure check and the
\* clock.
NextFile ==
    \/ ops < MaxOps /\ Quiet /\ \E id \in Keys, blob \in {V7, V42} : CacheFile(id, blob)
    \/ ops < MaxOps /\ Quiet /\ \E id \in Keys : GetCachedFile(id)
    \/ ops < MaxOps /\ InvalidateByTag("file")
    \/ Quiet /\ CheckMemoryUsage
    \/ Quiet /\ Tick

SpecFile == Init /\ [][NextFile]_vars

\* A caller that warms the cache and reads the files back, and the
\* pressure check.
NextWarm ==
    \/ ops < MaxOps /\ \E files \in WarmFiles : WarmCache(files)
    \/ ops < MaxOps /\ Quiet /\ \E id \in Keys : GetCachedFile(id)
    \/ Quiet /\ CheckMemoryUsage

SpecWarm == Init /\ [][NextWarm]_vars

\* An instance that has counted up to MaxCount hits and misses, its caller
\* writing, reading and asking for the statistics.
InitCounted ==
    /\ window \in [indexedDB : BOOLEAN, CompressionStream : BOOLEAN]
    /\ indexedDB = IF window.indexedDB THEN "open" ELSE "null"
    /\ timers = [memoryMonitor |-> TRUE, cleanupInterval |-> TRUE]
    /\ now = 1
    /\ memoryCache = <<>>
    /\ dataCache = EmptyStore
    /\ queryCache = EmptyStore
    /\ fileCache = EmptyStore
    /\ \E h \in 0..MaxCount, m \in 0..MaxCount :
           stats = [ZeroStats EXCEPT !.hits = h, !.misses = m]
    /\ localStorage = saveStatsToStorage(stats)
    /\ ops = 0
    /\ last = Called("init", 0, NoReturn, FALSE, FALSE)
    /\ written = [k \in Keys |-> NotWritten]
    /\ evictRun = NoEvictRun
    /\ calls = [p \in Callers |-> Idle]
    /\ batch = NoBatch
    /\ life = [init |-> "done", destroyed |-> 0]
    /\ twin = NoTwin
    /\ codec = NoCodec
    /\ Fresh
    /\ reads = [k \in DOMAIN written |-> 0]

NextCounted ==
    \/ ops < MaxStatOps /\ Quiet /\ \E k \in Keys, v \in {V7, V42} : Set(k, v, Unimportant)
    \/ ops < MaxStatOps /\ Quiet /\ \E k \in Keys : Get(k)
    \/ Quiet /\ GetStats

SpecCounted == InitCounted /\ [][NextCounted]_vars

\* A set call followed statement by statement on a cache that fills, with
\* the reads and the timer callbacks that run while it is suspended.
NextSetSteps ==
    \/ ops < MaxOps /\ \E k \in BoundKeys, o \in {DefaultOptions, Unimportant} :
                           SetCalled(k, V7, o)
    \/ SetStep
    \/ ops < MaxOps /\ AtAwait /\ Quiet /\ \E k \in BoundKeys : Get(k)
    \/ AtAwait /\ Quiet /\ CheckMemoryUsage
    \/ AtAwait /\ Quiet /\ CleanupExpiredItems

SpecSetSteps == InitBound /\ [][NextSetSteps]_vars

\* A caller that fills the cache and then stops, and the memory monitor,
\* which keeps firing (setInterval, every 10 s).
NextPressure ==
    \/ ops < MaxOps /\ Quiet /\ \E k \in BoundKeys : Set(k, V42, Unimportant)
    \/ ops < MaxOps /\ Quiet /\ \E k \in BoundKeys : Get(k)
    \/ Quiet /\ CheckMemoryUsage

SpecPressure ==
    InitBound /\ [][NextPressure]_vars /\ WF_vars(Quiet /\ CheckMemoryUsage)

\* A caller that counts its reads, the pressure check and the clock.
NextReads ==
    \/ ops < MaxTagOps /\ \E k \in Keys, c \in SetCalls : SetCounted(k, c.value, c.options)
    \/ ops < MaxTagOps /\ \E k \in Keys : GetCounted(k)
    \/ Quiet /\ CheckMemoryUsage
    \/ Quiet /\ Tick

SpecReads == Init /\ [][NextReads]_vars

\* A get suspended on its durable read while the caller sets and deletes,
\* with the pressure check and the sweep, which leave keys in the durable
\* store alone, and the clock.
NextSuspended ==
    \/ ops < MaxTagOps /\ Quiet /\ \E k \in Keys, c \in SetCalls : Set(k, c.value, c.options)
    \/ ops < MaxTagOps /\ Quiet /\ \E k \in Keys : Delete(k)
    \/ ops < MaxTagOps /\ Quiet /\ \E k \in Keys : Get(k)
    \/ ops < MaxTagOps /\ \E k \in Keys : GetStart(k)
    \/ GetResume
    \/ Quiet /\ CheckMemoryUsage
    \/ Quiet /\ CleanupExpiredItems
    \/ Quiet /\ Tick

SpecSuspended == Init /\ [][NextSuspended]_vars

\* A caller of setCache and getFromCache that awaits each call, while the
\* database of the DataProcessor opens.
NextProcessor ==
    \/ ops < MaxProcOps /\ \E k \in ProcKeys, v \in {V7, V42} : SetCache(k, v)
    \/ ops < MaxProcOps /\ \E k \in ProcKeys : GetFromCache(k)
    \/ ProcessorDbOpens

SpecProcessor == Init /\ [][NextProcessor]_vars

\* ---------------------------------------------------------------- claims
TtlElapsed(w, t) == w.ttl > 0 /\ (t - w.timestamp) > w.ttl

IsWritten(key) == written[key].value # NoValue

\* C1: a get of a key after a completed set of it, before the TTL elapses and
\* with no delete, clear or further set of the key in between, returns a
\* value equal to the one set.
C1_ReadYourWrite ==
    (last.op = "get" /\ IsWritten(last.key) /\ ~TtlElapsed(written[last.key], now))
        => last.ret = Returned(written[last.key].value)

\* C2: for an entry set with ttl T > 0 at t0, get at now - t0 <= T returns the
\* value; get at now - t0 > T returns null and leaves the key in neither tier.
C2_TtlExpiryOnRead ==
    (last.op = "get" /\ IsWritten(last.key) /\ written[last.key].ttl > 0)
        => IF now - written[last.key].timestamp <= written[last.key].ttl
           THEN last.ret = Returned(written[last.key].value)
           ELSE /\ last.ret = ReturnedNull
                /\ ~Has(memoryCache, last.key)
                /\ last.key \notin DOMAIN dataCache

\* The part of C2 that is about expiry alone: past the TTL, get returns null
\* and the key is in neither tier.
C2_ExpiredIsAbsent ==
    (last.op = "get" /\ IsWritten(last.key) /\ TtlElapsed(written[last.key], now))
        => /\ last.ret = ReturnedNull
           /\ ~Has(memoryCache, last.key)
           /\ last.key \notin DOMAIN dataCache

FoundExpired ==
    /\ last.op = "get"
    /\ last.ret = ReturnedNull
    /\ last.inMem \/ (indexedDB = "open" /\ last.inDb)

\* C3: a completed get adds 1 to hits or 1 to misses, never to both; a get
\* that finds an expired entry adds 1 to misses and nothing to hits.
C3_OneStatisticPerGet ==
    (last.op = "get" /\ last.ret.kind # "throw")
        => /\ \/ stats.hits = last.pre.hits + 1 /\ stats.misses = last.pre.misses
              \/ stats.hits = last.pre.hits /\ stats.misses = last.pre.misses + 1
           /\ FoundExpired => (stats.misses = last.pre.misses + 1 /\ stats.hits = last.pre.hits)

\* C6: when a set call has returned, the in-memory tier holds at most
\* maxMemoryItems entries.
C6_ItemBoundAfterSet ==
    (last.op = "set" /\ last.ret = ReturnedTrue) => Len(memoryCache) <= maxMemoryItems

\* C7: a set whose durable put fails still returns true, leaves the entry in
\* memory and still runs the eviction check.
C7_SetNeverFails ==
    (last.op = "set" /\ last.fault = "put")
        => /\ last.ret = ReturnedTrue
           /\ Has(memoryCache, last.key)
           /\ last.checked

\* C8: a get of a key not in memory whose durable read fails returns null
\* without raising, adds 1 to misses and leaves the in-memory tier as it was.
C8_ReadFailureIsMiss ==
    [][(last'.op = "get" /\ last'.fault = "get")
          => /\ last'.ret = ReturnedNull
             /\ stats'.misses = stats.misses + 1
             /\ memoryCache' = memoryCache]_vars

\* Entries an eviction run removed and kept.
Evicted == {e \in {evictRun.before[i] : i \in 1..Len(evictRun.before)} :
               ~Has(evictRun.after, e.key)}

Retained == {evictRun.after[i] : i \in 1..Len(evictRun.after)}

OthersStay ==
    evictRun.after = SelectSeq(evictRun.before, LAMBDA e : e \notin Evicted)

\* C4 as claimed: one eviction run over N >= 1 entries removes exactly
\* max(1, ceil(0.25 * N)) of them and every other entry stays.
C4_EvictsCeilQuarter ==
    evictRun.ran
        => /\ Cardinality(Evicted) = Max(1, (Len(evictRun.before) + 3) \div 4)
           /\ OthersStay

\* C4 as amended: one eviction run over N >= 1 entries removes exactly
\* max(1, floor(0.25 * N)) of them and every other entry stays.
C4_EvictsFloorQuarter ==
    evictRun.ran
        => /\ Cardinality(Evicted) = Max(1, Len(evictRun.before) \div 4)
           /\ OthersStay

\* A run over 9 entries, where floor gives 2 and ceil 3.
C4_Witness ==
    /\ evictRun.ran
    /\ Len(evictRun.before) = 9
    /\ Cardinality(Evicted) = 2

\* The recency C5 names: lastAccessed if the entry was ever read, else timestamp.
ReadRecency(e) == IF e.accessCount > 0 THEN e.lastAccessed ELSE e.timestamp

\* C5: no entry is evicted by a run while an entry of strictly lower priority,
\* or of equal priority and strictly older recency, is retained.
C5_EvictionOrder ==
    evictRun.ran
        => \A e \in Evicted : \A r \in Retained :
               /\ r.priority >= e.priority
               /\ r.priority = e.priority => ReadRecency(r) >= ReadRecency(e)

\* A run that evicted an entry while it kept an older entry of a higher
\* priority, and an entry of the same priority written before it but read
\* after it.
C5_Witness ==
    /\ evictRun.ran
    /\ \E e \in Evicted :
           /\ \E r \in Retained :
                  r.priority > e.priority /\ ReadRecency(r) < ReadRecency(e)
           /\ \E r \in Retained :
                  /\ r.priority = e.priority
                  /\ r.timestamp < e.timestamp
                  /\ ReadRecency(r) > ReadRecency(e)

\* C9: delete(key) leaves the key in neither tier and returns true; on a key in
\* neither tier it changes no tier and no statistic.
C9_DeleteBothTiers ==
    [][\A k \in Keys :
          (last'.op = "delete" /\ last'.key = k)
              => /\ last'.ret = ReturnedTrue
                 /\ ~Has(memoryCache', k)
                 /\ k \notin DOMAIN dataCache'
                 /\ (~Has(memoryCache, k) /\ k \notin DOMAIN dataCache)
                        => /\ memoryCache' = memoryCache
                           /\ dataCache' = dataCache
                           /\ stats' = stats
                           /\ localStorage' = localStorage]_vars

\* A delete of a key that was in both tiers.
C9_Witness ==
    /\ last.op = "delete"
    /\ last.inMem
    /\ last.inDb
    /\ DOMAIN dataCache # {}

\* C10: after clear() the in-memory tier and the dataCache store are empty,
\* the statistics are 0 in the instance and in their saved copy, and the
\* fileCache and queryCache stores are as before.
C10_ClearResets ==
    [][last'.op = "clear"
          => /\ memoryCache' = <<>>
             /\ dataCache' = EmptyStore
             /\ stats' = ZeroStats
             /\ localStorage' = [present |-> TRUE, stats |-> ZeroStats]
             /\ fileCache' = fileCache
             /\ queryCache' = queryCache]_vars

\* A clear of a cache with entries in both tiers, statistics other than 0
\* in the instance and a record in queryCache.
C10_Witness ==
    /\ last.op = "clear"
    /\ last.inMem
    /\ last.inDb
    /\ last.pre # ZeroStats
    /\ queryCache # EmptyStore

\* The entry a getOrCompute call stored carries the key, the result and the
\* options of the call.
StoredAsAsked(c) ==
    /\ c.stored # <<>>
    /\ c.stored[1].key = c.key
    /\ c.stored[1].ttl = c.options.ttl
    /\ c.stored[1].priority = c.options.priority
    /\ c.stored[1].tags = c.options.tags
    /\ c.stored[1].compressed = c.options.compress
    /\ c.stored[1].size = calculateSize(c.result)

\* C11: a completed getOrCompute(key, computeFn, options) on a key holding a
\* non-expired value has not invoked computeFn and returns the cached value;
\* otherwise it has invoked computeFn exactly once, has stored its result
\* under key with the options and returns that result.
C11_GetOrCompute ==
    \A p \in Callers :
        calls[p].pc = "done"
            => IF calls[p].held
               THEN calls[p].invoked = 0 /\ calls[p].ret = Returned(calls[p].cached)
               ELSE /\ calls[p].invoked = 1
                    /\ ~calls[p].failed
                           => /\ StoredAsAsked(calls[p])
                              /\ calls[p].ret = Returned(calls[p].result)

\* The part of C11 that is about the call itself: computeFn is invoked if and
\* only if get returned null, once, and its result is stored and returned.
C11_ComputesOnNull ==
    \A p \in Callers :
        (calls[p].pc = "done" /\ calls[p].ret.kind # "throw")
            => IF calls[p].held
               THEN calls[p].invoked = 0
               ELSE /\ calls[p].invoked = 1
                    /\ StoredAsAsked(calls[p])
                    /\ calls[p].ret = Returned(calls[p].result)

BothComputed ==
    /\ calls[1].pc = "done" /\ calls[2].pc = "done"
    /\ calls[1].key = calls[2].key
    /\ calls[1].invoked = 1 /\ calls[2].invoked = 1
    /\ calls[1].stored # <<>> /\ calls[2].stored # <<>>

\* The callers whose getOrCompute call computed and stored an entry for k.
Writers(k) == {p \in Callers : calls[p].key = k /\ calls[p].stored # <<>>}

LastWriter(k) ==
    CHOOSE p \in Writers(k) : \A q \in Writers(k) : calls[q].wrote <= calls[p].wrote

\* An entry without what get adds to it.
AsStored(e) == [e EXCEPT !.accessCount = 0, !.lastAccessed = 0]

\* C13: when overlapping getOrCompute calls for one absent key have each
\* invoked computeFn and all have completed, the entry held for the key is
\* the one of the set whose memory write came last.
C13_LastWriterWins ==
    \A k \in Keys :
        (/\ Cardinality(Writers(k)) >= 2
         /\ \A p \in Callers : calls[p].key = k => calls[p].pc = "done")
            => /\ \A p \in Writers(k) : calls[p].invoked = 1
               /\ Has(memoryCache, k)
               /\ AsStored(MapGet(memoryCache, k)) = calls[LastWriter(k)].stored[1]
               /\ indexedDB = "open"
                      => /\ k \in DOMAIN dataCache
                         /\ dataCache[k] = calls[LastWriter(k)].stored[1]

\* Both calls computed, with different results, and the call that looked the
\* key up first wrote last.
C13_Witness ==
    /\ BothComputed
    /\ calls[1].result # calls[2].result
    /\ calls[1].got < calls[2].got
    /\ calls[1].wrote > calls[2].wrote
    /\ calls[1].got < calls[2].wrote /\ calls[2].got < calls[1].wrote

\* C14: the list setBatch or getBatch returns is as long as its input and
\* holds at position i the result of the set or get of element i, whatever
\* order these settled in.
C14_BatchInputOrder ==
    (batch.returned /\ batch.ret # Raised)
        => /\ Len(batch.results) = Len(batch.items)
           /\ \A i \in 1..Len(batch.items) : batch.results[i] = batch.individual[i]

\* A getBatch of two keys whose second get settled first, one a value and
\* the other null.
C14_Witness ==
    /\ batch.op = "getBatch"
    /\ batch.returned
    /\ Len(batch.items) = 2
    /\ batch.settled[1].index = 2
    /\ batch.results[1].kind = "value"
    /\ batch.results[2] = ReturnedNull

\* C15: after invalidateByTag(tag) no in-memory entry carries the tag, every
\* entry that was matched is in neither tier, and every entry whose tags do
\* not include the tag is as before in both tiers.
C15_InvalidateByTag ==
    [][\A tag \in Tags :
          (last'.op = "invalidateByTag" /\ last'.tag = tag)
              => /\ \A i \in 1..Len(memoryCache') : tag \notin memoryCache'[i].tags
                 /\ \A i \in 1..Len(memoryCache) :
                        tag \in memoryCache[i].tags
                            => /\ ~Has(memoryCache', memoryCache[i].key)
                               /\ memoryCache[i].key \notin DOMAIN dataCache'
                 /\ memoryCache' = SelectSeq(memoryCache, LAMBDA e : tag \notin e.tags)
                 /\ \A k \in DOMAIN dataCache :
                        tag \notin dataCache[k].tags
                            => k \in DOMAIN dataCache' /\ dataCache'[k] = dataCache[k]]_vars

\* An invalidateByTag that removed an entry from both tiers and left an
\* entry with other tags in both.
C15_Witness ==
    /\ last.op = "invalidateByTag"
    /\ last.inMem
    /\ last.inDb
    /\ memoryCache # <<>>
    /\ \E i \in 1..Len(memoryCache) :
           /\ memoryCache[i].tags # {}
           /\ memoryCache[i].key \in DOMAIN dataCache

\* C16: every set, get and delete of a session returns the same with the
\* durable backend unavailable as with it available, also a get of a key that
\* was evicted or swept from memory earlier in the session.
C16_MemoryOnlyTransparent ==
    (twin.on /\ last.op \in {"set", "get", "delete"}) => twin.ret = last.ret

\* What holds of it: the two agree until an eviction run has taken an entry
\* out of memory.
C16_TransparentUntilEviction ==
    (twin.on /\ last.op \in {"set", "get", "delete"} /\ ~evictRun.ran)
        => twin.ret = last.ret

\* A get that finds a live record of the key in the durable store only.
DurableOnly(k) ==
    /\ ~Has(memoryCache, k)
    /\ indexedDB = "open"
    /\ k \in DOMAIN dataCache
    /\ ~isExpired(dataCache[k], now)

\* C17: a get of a non-expired key that is in the durable store only returns
\* its value, counts as a hit and leaves the key in the in-memory tier.
C17_Promotion ==
    [][\A k \in Keys :
          (last'.op = "get" /\ last'.key = k /\ ops' = ops + 1 /\ DurableOnly(k))
              => /\ last'.ret = Returned(written[k].value)
                 /\ stats'.hits = stats.hits + 1
                 /\ stats'.misses = stats.misses
                 /\ Has(memoryCache', k)]_vars

\* The part of C17 that is about promotion alone: the hit and the entry
\* back in memory.
C17_PromotedAndHit ==
    [][\A k \in Keys :
          (last'.op = "get" /\ last'.key = k /\ ops' = ops + 1 /\ DurableOnly(k))
              => /\ last'.ret.kind = "value"
                 /\ stats'.hits = stats.hits + 1
                 /\ stats'.misses = stats.misses
                 /\ Has(memoryCache', k)
                 /\ MapGet(memoryCache', k).value = dataCache[k].value]_vars

\* C18: once destroy() has returned, neither the memory-pressure check nor
\* the expiry sweep runs again, whenever destroy() was called, also before
\* init() had finished.
C18_NoTaskAfterDestroy ==
    life.destroyed > 0 => last.op \notin {"checkMemoryUsage", "cleanupExpiredItems"}

\* C19: a destroy() right after a destroy() raises nothing and changes
\* neither the memory tier, the statistics, the timers nor the connection.
C19_DestroyIdempotent ==
    [][(last.op = "destroy" /\ last'.op = "destroy" /\ ops' = ops + 1)
          => /\ last'.ret # Raised
             /\ memoryCache' = memoryCache
             /\ stats' = stats
             /\ localStorage' = localStorage
             /\ timers' = timers
             /\ indexedDB' = indexedDB
             /\ dataCache' = dataCache]_vars

\* A second destroy() of an instance whose init() had opened the connection
\* and whose first destroy() had closed it.
C19_Witness ==
    /\ last.op = "destroy"
    /\ life.destroyed = 2
    /\ life.init = "done"
    /\ indexedDB = "closed"
    /\ ~last.inMem
    /\ ~last.inDb
    /\ stats # ZeroStats

\* C20: decompress(compress(v)) equals v for every serializable value v,
\* also without CompressionStream, for texts with runs of a repeated
\* character and with digits.
C20_CodecRoundTrip ==
    codec.stage = "decompressed" => codec.out = Returned(codec.value)

\* What holds of it: with CompressionStream the round trip gives the value
\* back; without it, it does for the texts in which no character is
\* followed by a digit.
C20_RoundTripWithoutDigits ==
    (/\ codec.stage = "decompressed"
     /\ \/ window.CompressionStream
        \/ \A i \in 2..Len(codec.value) : codec.value[i] \notin Digits)
        => codec.out = Returned(codec.value)

\* C21: a failure of serialization, compression or decompression inside set
\* or get never raises: set still stores the value and returns true, get
\* still returns a value or null.
C21_CodecFailureNeverRaises ==
    /\ last.op = "set" => (last.ret = ReturnedTrue /\ Has(memoryCache, last.key))
    /\ last.op = "get" => last.ret.kind \in {"value", "null"}

\* What holds of it: a gzip stream that throws inside set does not raise;
\* set stores the value and returns true.
C21_CompressFailureCaught ==
    (last.op = "set" /\ last.fault = "compress")
        => (last.ret = ReturnedTrue /\ Has(memoryCache, last.key))

\* The stored value of an entry is in compressed form.
InCompressedForm(e) == e.value.form \in {"rle", "gzip"}

\* C22: in every stored entry, in memory and in the durable store, the
\* compressed flag is true exactly when the stored value is in compressed
\* form.
C22_CompressedFlagTruthful ==
    /\ \A i \in 1..Len(memoryCache) :
           memoryCache[i].compressed <=> InCompressedForm(memoryCache[i])
    /\ \A k \in DOMAIN dataCache :
           dataCache[k].compressed <=> InCompressedForm(dataCache[k])

\* The keys of the in-memory entries.
KeysOf(mem) == {mem[i].key : i \in 1..Len(mem)}

\* C23: stats.evictions grows by exactly the number of entries a pressure
\* eviction run removes, in checkMemoryUsage and in the eviction check of
\* set, and is left alone by delete, invalidateByTag, get (its lazy expiry
\* included) and cleanupExpiredItems.
C23_EvictionsCountRemovals ==
    [][LET before == IF last'.op = "set" THEN KeysOf(memoryCache) \cup {last'.key}
                     ELSE KeysOf(memoryCache)
           removed == before \ KeysOf(memoryCache')
       IN  IF last'.op \in {"set", "checkMemoryUsage"}
           THEN stats'.evictions = stats.evictions + Cardinality(removed)
           ELSE stats'.evictions = stats.evictions]_vars

\* A pressure check has just removed two entries at once, after a lazy
\* expiry, a delete, a tag invalidation or a sweep left the count alone.
C23_Witness ==
    /\ last.op = "checkMemoryUsage"
    /\ evictRun.ran
    /\ Len(evictRun.before) - Len(evictRun.after) = 2
    /\ Len(memoryCache) = Len(evictRun.after)
    /\ stats.evictions = 2

\* C24: when init() of the new instance completes, its hits and misses are
\* at least the values the previous instance saved, whatever get calls were
\* made before.
C24_StatsSurviveRestart ==
    last.op = "init"
        => (stats.hits >= SavedStats.hits /\ stats.misses >= SavedStats.misses)

\* What holds of it: with no get before init() completes, the statistics
\* are the saved ones.
C24_LoadedWhenNoGetBefore ==
    (last.op = "init" /\ last.pre.hits + last.pre.misses = 0) => stats = SavedStats

\* C25: cacheQuery and getCachedQuery leave the memory tier and the
\* dataCache (and fileCache) stores as they are; getCachedQuery returns null
\* whenever the durable backend is unavailable, and with it available the
\* result last given to cacheQuery for the hash (null if none was).
C25_QueryCacheApart ==
    [][/\ last'.op \in {"cacheQuery", "getCachedQuery"}
           => (memoryCache' = memoryCache /\ dataCache' = dataCache
               /\ fileCache' = fileCache)
       /\ last'.op = "getCachedQuery"
           => last'.ret = IF indexedDB = "open" /\ queried[last'.key] # <<>>
                          THEN Returned(queried[last'.key][1])
                          ELSE ReturnedNull]_vars

\* getCachedQuery has returned the result given for a hash after the clock
\* moved, with an entry of the same key in memory and in dataCache.
C25_Witness ==
    /\ last.op = "getCachedQuery"
    /\ last.inDb
    /\ last.ret = Returned(V42)
    /\ queryCache[last.key].timestamp > 1
    /\ Has(memoryCache, last.key)
    /\ last.key \in DOMAIN dataCache

\* An entry or record carrying the "file" tag under the key, in either tier.
FileKept(k) ==
    \/ Has(memoryCache, k) /\ "file" \in MapGet(memoryCache, k).tags
    \/ k \in DOMAIN dataCache /\ "file" \in dataCache[k].tags

\* cacheFile has stored the entry with the 7-day ttl, priority 2 and the
\* "file" tag; getCachedFile of a cached file returns the blob (the clock of
\* SpecFile stays within 7 days); invalidateByTag("file") leaves no file.
FileCacheBehaves ==
    /\ last.op = "set"
           => /\ Has(memoryCache, last.key)
              /\ MapGet(memoryCache, last.key).ttl = 7 * 24 * 60 * 60 * 1000
              /\ MapGet(memoryCache, last.key).priority = 2
              /\ MapGet(memoryCache, last.key).tags = {"file"}
    /\ (last.op = "get" /\ written[last.key] # NotWritten)
           => last.ret = Returned(written[last.key].value)
    /\ (last.op = "invalidateByTag" /\ last.tag = "file")
           => \A k \in Keys : ~FileKept(k)

\* C26: cacheFile(id, blob) stores the blob under the file's key with ttl
\* exactly 7 days, priority 2 and tags {"file"}, so that getCachedFile(id)
\* returns the blob within 7 days and invalidateByTag("file") removes it.
C26_CacheFile == FileCacheBehaves

\* What holds of it: in a runtime with CompressionStream, until an eviction
\* run has taken an entry out of memory.
C26_CacheFileUntilEviction ==
    (window.CompressionStream /\ ~evictRun.ran) => FileCacheBehaves

\* C27: warmCache is best-effort per item: after a call in which caching
\* one file failed, every other file of the list is cached.
C27_WarmCacheBestEffort ==
    last.op = "warmCache"
        => \A i \in 1..Len(warm.files) : warm.files[i].serializable => FileKept(i)

\* What holds of it: the files before the first that fails are cached,
\* with their sample queries where the backend is available.
C27_WarmCacheUpToFailure ==
    last.op = "warmCache"
        => \A i \in 1..Len(warm.files) :
               (\A j \in 1..i : warm.files[j].serializable)
                   => /\ FileKept(i)
                      /\ (indexedDB = "open" /\ warm.files[i].rows)
                             => sampleQueries(i) \subseteq DOMAIN queryCache

\* The sum of the size fields of the entries at the given positions.
RECURSIVE SizeOfAll(_, _)
SizeOfAll(mem, at) ==
    IF at = {} THEN 0
    ELSE LET i == CHOOSE x \in at : TRUE
         IN  mem[i].size + SizeOfAll(mem, at \ {i})

\* r, a number of hundredths, is hits / (hits + misses) * 100 rounded to two
\* decimals: no other number of hundredths is nearer.
IsHitRate(r, hits, misses) ==
    LET total == hits + misses
    IN  /\ 100 % r.d = 0
        /\ LET hundredths == r.n * (100 \div r.d)
           IN  /\ 2 * total * hundredths - 2 * 100 * 100 * hits <= total
               /\ 2 * total * hundredths - 2 * 100 * 100 * hits >= -total

\* C28: getStats().hitRate is hits / (hits + misses) * 100 rounded to two
\* decimals, and 0 when there were no requests; memoryItems is the number of
\* entries in memory and memorySize the sum of their size fields.
C28_GetStats ==
    last.op = "getStats"
        => /\ IF stats.hits + stats.misses = 0 THEN last.ret.v.hitRate = ZeroRatio
              ELSE IsHitRate(last.ret.v.hitRate, stats.hits, stats.misses)
           /\ last.ret.v.memoryItems = Cardinality(KeysOf(memoryCache))
           /\ last.ret.v.memorySize = SizeOfAll(memoryCache, 1..Len(memoryCache))

\* getStats has returned 66.67 for two hits in three requests, with two
\* entries in memory.
C28_Witness ==
    /\ last.op = "getStats"
    /\ stats.hits = 2 /\ stats.misses = 1
    /\ last.ret.v.hitRate = Ratio(6667, 100)
    /\ last.ret.v.memoryItems = 2
    /\ last.ret.v.memorySize > 2

Ran(stmt) ==
    IF \E i \in 1..Len(setCall.order) : setCall.order[i] = stmt
    THEN CHOOSE i \in 1..Len(setCall.order) : setCall.order[i] = stmt
    ELSE 0

\* C30: within one set call the memory write comes first, the durable write
\* after it and the item-count eviction check last: the durable write never
\* starts before the memory write (memory holds the entry put), and the
\* check never runs before the durable write has completed.
C30_SetOrder ==
    /\ Ran("store.put") > 0
           => (Ran("memoryCache.set") > 0 /\ Ran("memoryCache.set") < Ran("store.put"))
    /\ Ran("onsuccess") > 0 => Ran("store.put") < Ran("onsuccess")
    /\ Ran("checkEviction") > 0
           => /\ Ran("memoryCache.set") > 0
              /\ Ran("memoryCache.set") < Ran("checkEviction")
              /\ indexedDB = "open"
                     => (Ran("onsuccess") > 0 /\ Ran("onsuccess") < Ran("checkEviction"))
    /\ last.op = "store.put"
           => (Has(memoryCache, last.key)
               /\ dataCache[last.key] = MapGet(memoryCache, last.key))
    /\ (last.op = "checkEviction" /\ indexedDB = "open") => last.inDb

\* A set call with a connection has run every statement and its eviction
\* check evicted, the record of its key in the durable store.
C30_Witness ==
    /\ setCall.order =
           <<"compress", "memoryCache.set", "store.put", "onsuccess", "checkEviction">>
    /\ setCall.ret = ReturnedTrue
    /\ last.op = "checkEviction"
    /\ evictRun.ran
    /\ evictRun.before # <<>>
    /\ Len(evictRun.before) > maxMemoryItems
    /\ setCall.key \in DOMAIN dataCache

\* The in-memory tier is over its byte limit or over its item limit.
OverBounds ==
    SumSizes(memoryCache) > maxMemorySize \/ Len(memoryCache) > maxMemoryItems

\* C31: with the memory monitor firing again and again and the caller making
\* no further set or promoting get, a state in which the in-memory tier is
\* over maxMemorySize or over maxMemoryItems is eventually followed by one in
\* which it is within both.
C31_PressureRelieved == OverBounds ~> ~OverBounds

\* The monitor has just brought a tier that was over the byte limit alone
\* within both limits.
C31_Witness ==
    /\ last.op = "checkMemoryUsage"
    /\ evictRun.ran
    /\ Len(evictRun.before) <= maxMemoryItems
    /\ SumSizes(evictRun.before) > maxMemorySize
    /\ memoryCache = evictRun.after
    /\ ~OverBounds

\* The entries of the in-memory tier under a key.
EntriesOf(mem, k) == {i \in 1..Len(mem) : mem[i].key = k}

\* The entry is what set builds from the value and the ttl of the last set of
\* its key at the time of that set, with accessCount 0 and no lastAccessed.
AsJustSet(e, k, t) ==
    /\ e.timestamp = t
    /\ e.accessCount = 0
    /\ e.lastAccessed = 0
    /\ \E o \in {Unimportant, DefaultOptions, ShortLived} :
           /\ o.ttl = written[k].ttl
           /\ e = cacheItem(window, k, written[k].value, o, t)

\* C32: a set on a key that is already in memory replaces the entry: when it
\* has returned there is exactly one entry for the key in each tier, with the
\* new value, the time of the set as timestamp, the new ttl, priority and
\* tags, accessCount 0 and no lastAccessed.
C32_SetReplaces ==
    (last.op = "set" /\ last.ret = ReturnedTrue /\ last.inMem)
        => /\ Cardinality(EntriesOf(memoryCache, last.key)) = 1
           /\ AsJustSet(MapGet(memoryCache, last.key), last.key, now)
           /\ indexedDB = "open"
                  => (last.key \in DOMAIN dataCache
                      /\ AsJustSet(dataCache[last.key], last.key, now))

\* What holds of it: the durable record is replaced so, and the entry in
\* memory too unless the eviction check of the set removed it.
C32_SetReplacesUnlessEvicted ==
    (last.op = "set" /\ last.ret = ReturnedTrue /\ last.inMem)
        => /\ Cardinality(EntriesOf(memoryCache, last.key)) <= 1
           /\ Has(memoryCache, last.key)
                  => AsJustSet(MapGet(memoryCache, last.key), last.key, now)
           /\ indexedDB = "open"
                  => (last.key \in DOMAIN dataCache
                      /\ AsJustSet(dataCache[last.key], last.key, now))

\* C33: the accessCount of the entry of a key is the number of gets of the
\* key that returned a value since its last set, pressure eviction and
\* promotion from the durable store included; a get that misses or finds
\* the entry expired does not change it.
C33_AccessCountCountsReads ==
    \A k \in Keys :
        Has(memoryCache, k) => MapGet(memoryCache, k).accessCount = reads[k]

\* What holds of it: until an eviction run has taken an entry out of memory.
C33_AccessCountUntilEviction ==
    ~evictRun.ran => C33_AccessCountCountsReads

\* C34: no step of an instance other than clear() lowers hits or misses,
\* the completion of init(), which loads the saved statistics, included.
C34_CountersNeverDecrease ==
    [][last'.op # "clear"
          => (stats'.hits >= stats.hits /\ stats'.misses >= stats.misses)]_vars

\* init() has completed on an instance that had counted a hit and a miss
\* before, and its counters are those it had.
C34_Witness ==
    /\ last.op = "init"
    /\ last.pre.hits > 0
    /\ last.pre.misses > 0
    /\ stats.hits = last.pre.hits
    /\ stats.misses = last.pre.misses

\* No get of the key is suspended on its durable read.
NoneReading(k) == getCall.pc # "reading" \/ getCall.key # k

\* C35: once delete(key) has completed with no set(key) after it, and the
\* get(key) that was in flight on the durable path has completed too, the
\* key is in neither tier and a get(key) returns null.
C35_DeletedStaysDeleted ==
    \A k \in Keys :
        (written[k] = NotWritten /\ NoneReading(k))
            => /\ ~Has(memoryCache, k)
               /\ k \notin DOMAIN dataCache
               /\ (last.op = "get" /\ last.key = k /\ ~last.inMem)
                      => last.ret = ReturnedNull

\* What holds of it: the durable store never holds a deleted key, and
\* neither tier does if no get was suspended when delete was called.
C35_DeletedFromDurable ==
    \A k \in Keys :
        (written[k] = NotWritten /\ NoneReading(k))
            => /\ indexedDB = "open" => k \notin DOMAIN dataCache
               /\ getCall.pc = "none" => ~Has(memoryCache, k)

\* The entry is the one the last set of its key built, whatever was read
\* from it since.
OfLastSet(e, k) ==
    \E o \in {Unimportant, DefaultOptions, ShortLived} :
        /\ o.ttl = written[k].ttl
        /\ [e EXCEPT !.accessCount = 0, !.lastAccessed = 0]
              = cacheItem(window, k, written[k].value, o, written[k].timestamp)

\* The get that was suspended on its durable read has just completed, and
\* found the key in memory when it resumed: a set put it there meanwhile.
ResumedOverSet ==
    /\ getCall.pc = "done"
    /\ last.op = "get" /\ last.key = getCall.key /\ last.ret = getCall.ret
    /\ last.inMem
    /\ written[last.key] # NotWritten

\* C36: a set that writes memory while a get of its key is suspended on its
\* durable read is not undone by that get: once both have completed, both
\* tiers hold the entry of the set.
C36_SetNotUndoneByGet ==
    ResumedOverSet
        => /\ Has(memoryCache, last.key)
           /\ OfLastSet(MapGet(memoryCache, last.key), last.key)
           /\ last.key \in DOMAIN dataCache
           /\ OfLastSet(dataCache[last.key], last.key)

\* The two ways it fails: the older record takes the place of the entry,
\* or the entry is deleted because the older record had expired.
C36_NotOverwritten ==
    (ResumedOverSet /\ Has(memoryCache, last.key))
        => OfLastSet(MapGet(memoryCache, last.key), last.key)

C36_NotDeleted ==
    (ResumedOverSet /\ getCall.found # <<>>
         /\ now - written[last.key].timestamp <= written[last.key].ttl)
        => Has(memoryCache, last.key) /\ last.key \in DOMAIN dataCache

\* C37: when set(key) returns true the key is in memory: the eviction check
\* the set runs does not evict the entry the set has just inserted.
C37_SetKeepsItsEntry ==
    (last.op = "set" /\ last.ret = ReturnedTrue) => Has(memoryCache, last.key)

\* What holds of it: the entry is there unless the check found memory over
\* its item limit and ran evictItems on it, the entry included.
C37_KeptUnlessEvictionRan ==
    (last.op = "set" /\ last.ret = ReturnedTrue /\ ~Has(memoryCache, last.key))
        => /\ evictRun.ran
           /\ Len(evictRun.before) > maxMemoryItems
           /\ Has(evictRun.before, last.key)
           /\ memoryCache = evictRun.after

\* C38: where the durable backend has opened, every entry written by a
\* completed set is in dataCache, the sets made before init() had opened the
\* store included.
C38_EverySetIsDurable ==
    indexedDB = "open"
        => \A k \in Keys : written[k] # NotWritten => k \in DOMAIN dataCache

\* What holds of it: a set made once the store is open writes its record.
C38_SetOnOpenStoreIsDurable ==
    (last.op = "set" /\ last.ret = ReturnedTrue /\ indexedDB = "open")
        => /\ last.key \in DOMAIN dataCache
           /\ OfLastSet(dataCache[last.key], last.key)

\* The last run of evictItems took the key out of memory.
PressureEvicted(k) ==
    evictRun.ran /\ Has(evictRun.before, k) /\ ~Has(evictRun.after, k)

\* The pressure check and the sweep leave the three durable stores as they
\* were.
DurableUntouched ==
    last'.op \in {"checkMemoryUsage", "cleanupExpiredItems"}
        => dataCache' = dataCache /\ queryCache' = queryCache /\ fileCache' = fileCache

\* A get of a live key that pressure eviction left in the durable store
\* only returns the value of the key.
EvictedStillRead ==
    \A k \in Keys :
        (last'.op = "get" /\ last'.key = k /\ ops' = ops + 1
             /\ DurableOnly(k) /\ PressureEvicted(k))
            => last'.ret = Returned(written[k].value)

\* C39: pressure eviction and the expiry sweep change the in-memory tier
\* only, the content of the durable store is the same after as before; so a
\* later get of a pressure-evicted key that has not expired returns its value.
C39_EvictionChangesMemoryOnly == [][DurableUntouched /\ EvictedStillRead]_vars

\* The frame on its own, in every runtime.
C39_DurableStoreUntouched == [][DurableUntouched]_vars

\* The whole of it where CompressionStream is present.
C39_WithCompressionStream ==
    [][window.CompressionStream => (DurableUntouched /\ EvictedStillRead)]_vars

\* The keys of the Map of the DataProcessor.
CachedKeys(p) == {p.cache[i].key : i \in 1..Len(p.cache)}

\* setCache takes a key other than the one it sets out of the Map only when
\* that key is the oldest inserted, the Map is full and the key it sets is new.
RemovesOnlyForNewKey ==
    \A k \in CachedKeys(processor) \ CachedKeys(processor') :
        /\ last'.op = "setCache"
        /\ k = processor.cache[1].key
        /\ Len(processor.cache) >= maxCacheSize
        /\ ~Has(processor.cache, last'.key)

\* C40: the Map of the DataProcessor holds at most maxCacheSize entries after
\* any sequence of setCache and getFromCache calls, and setCache removes
\* another entry, the oldest inserted, only when it inserts a new key into a
\* full Map.
C40_ProcessorCacheBounded ==
    [][Len(processor'.cache) <= maxCacheSize /\ RemovesOnlyForNewKey]_vars

\* Its two parts.
C40_AtMostMaxCacheSize == Len(processor.cache) <= maxCacheSize

C40_RemovesOnlyForNewKey == [][RemovesOnlyForNewKey]_vars

\* What holds of it: setCache never leaves more entries than it found or
\* than maxCacheSize, and the entry it removes is the oldest inserted.
C40_SetCacheKeepsBound ==
    [][last'.op = "setCache"
          => /\ Len(processor'.cache) <= Max(Len(processor.cache), maxCacheSize)
             /\ \A k \in CachedKeys(processor) \ CachedKeys(processor') :
                    k = processor.cache[1].key]_vars

====
